---------------------------- MODULE Spec2Model ----------------------------
(***************************************************************************)
(* Model of the github-events crate: the serde-derived (de)serialization   *)
(* of `enum Event` (src/src/lib.rs) and of the action enumerations         *)
(* (src/src/actions.rs).                                                   *)
(*                                                                         *)
(* The crate has no hand-written function: every behaviour is that of the  *)
(* code `#[derive(Serialize, Deserialize)]` expands to, driven by          *)
(* serde_json.  A JSON document is modelled as its syntax tree (object     *)
(* members as a sequence, so that member order and duplicate keys exist);  *)
(* a decoded value is a Rust value (a struct is a function from its field  *)
(* names to values).                                                       *)
(***************************************************************************)
EXTENDS Integers, Sequences, FiniteSets, TLC

\* ------------------------------------------------------------------------
\* JSON syntax trees (the input of serde_json::from_str once tokenised).
\* ------------------------------------------------------------------------
JNull == [k |-> "null"]
JBool(b) == [k |-> "bool", b |-> b]
JNum(n) == [k |-> "num", n |-> n]
JFloat(n) == [k |-> "float", f |-> n]
JStr(s) == [k |-> "str", s |-> s]
JArr(items) == [k |-> "arr", items |-> items]
\* members: a sequence of [key, val]
JObj(members) == [k |-> "obj", members |-> members]
M(key, val) == [key |-> key, val |-> val]

\* ------------------------------------------------------------------------
\* Type descriptors: the declared type of a field.
\* ------------------------------------------------------------------------
String == [c |-> "String"]
i64 == [c |-> "i64"]
isize == [c |-> "isize"]
bool == [c |-> "bool"]
Value == [c |-> "Value"]
Option(t) == [c |-> "Option", of |-> t]
Vec(t) == [c |-> "Vec", of |-> t]
Struct(n) == [c |-> "Struct", n |-> n]
Enum(n) == [c |-> "Enum", n |-> n]

\* A field: its Rust name, its wire name and its type.  F is a field whose
\* wire name is its Rust name, R one with #[serde(rename = "...")].
F(name, ty) == [name |-> name, wire |-> name, ty |-> ty]
R(name, wire, ty) == [name |-> name, wire |-> wire, ty |-> ty]

\* ------------------------------------------------------------------------
\* Action enumerations (src/src/actions.rs): the variants in declaration
\* order, each with the wire name #[serde(rename_all = "snake_case")] gives.
\* ------------------------------------------------------------------------
UV(name, wire) == [name |-> name, wire |-> wire]

\* Check as it would be with rename_all = "camelCase".
actions_CheckCamelCase ==
    << UV("Created", "created"), UV("Rerequested", "rerequested"),
       UV("RequestedAction", "requestedAction"), UV("Completed", "completed") >>

actions_Check ==
    << UV("Created", "created"), UV("Rerequested", "rerequested"),
       UV("RequestedAction", "requested_action"), UV("Completed", "completed") >>
actions_Created ==
    << UV("Created", "created") >>
actions_Revoked ==
    << UV("Revoked", "revoked") >>
actions_CreatedDeleted ==
    << UV("Created", "created"), UV("Deleted", "deleted") >>
actions_CrEdDel ==
    << UV("Created", "created"), UV("Edited", "edited"), UV("Deleted", "deleted") >>
actions_AddedRemoved ==
    << UV("Added", "added"), UV("Removed", "removed") >>
actions_TeamEvent ==
    << UV("Created", "created"), UV("Deleted", "deleted"), UV("Edited", "edited"),
       UV("AddedToRepository", "added_to_repository"),
       UV("RemovedFromRepository", "removed_from_repository") >>

EnumNames ==
    << "Check", "Created", "Revoked", "CreatedDeleted", "CrEdDel", "AddedRemoved",
       "TeamEvent" >>

EnumVariants(name) ==
    CASE name = "Check" -> actions_Check
      [] name = "Created" -> actions_Created
      [] name = "Revoked" -> actions_Revoked
      [] name = "CreatedDeleted" -> actions_CreatedDeleted
      [] name = "CrEdDel" -> actions_CrEdDel
      [] name = "AddedRemoved" -> actions_AddedRemoved
      [] name = "TeamEvent" -> actions_TeamEvent

\* ---- Event variants (enum Event), one definition per variant: its fields in
\* declaration order.
Event_CheckRunEvent ==
    [kind |-> "struct", fields |-> <<
    F("action", Enum("Check")), F("check_run", Struct("CheckRun")),
    F("repository", Struct("Repository")), F("organization", Struct("Organization")),
    F("sender", Struct("Sender")), F("installation", Struct("Installation")) >>]
Event_CheckSuiteEvent ==
    [kind |-> "struct", fields |-> <<
    F("action", Enum("Check")), F("check_suite", Struct("CheckSuite")) >>]
Event_CommitCommentEvent ==
    [kind |-> "struct", fields |-> <<
    F("action", Enum("Created")), F("comment", Struct("Comment")),
    F("repository", Struct("Repository")), F("sender", Struct("Sender")) >>]
Event_CreateEvent ==
    [kind |-> "struct", fields |-> <<
    R("ref_field", "ref", String), F("ref_type", String), F("master_branch", String),
    F("description", Value), F("pusher_type", String), F("repository", Struct("Repository")),
    F("sender", Struct("Sender")) >>]
Event_DeleteEvent ==
    [kind |-> "struct", fields |-> <<
    R("ref_field", "ref", String), F("ref_type", String), F("pusher_type", String) >>]
Event_DeploymentEvent ==
    [kind |-> "struct", fields |-> <<
    F("deployment", Struct("Deployment")), F("repository", Struct("Repository")),
    F("sender", Struct("Sender")) >>]
Event_DeploymentStatusEvent ==
    [kind |-> "struct", fields |-> <<
    F("deployment_status", Struct("DeploymentStatus")), F("deployment", Struct("Deployment")),
    F("repository", Struct("Repository")), F("sender", Struct("Sender")) >>]
Event_ForkEvent ==
    [kind |-> "struct", fields |-> <<
    F("forkee", Struct("Forkee")), F("repository", Struct("Repository")),
    F("sender", Struct("Sender")) >>]
Event_GitHubAppAuthorizationEvent ==
    [kind |-> "struct", fields |-> <<
    F("action", Enum("Revoked")), F("sender", Struct("Sender")) >>]
Event_GollumEvent ==
    [kind |-> "struct", fields |-> <<
    F("pages", Vec(Struct("Page"))), F("repository", Struct("Repository")),
    F("sender", Struct("Sender")) >>]
Event_InstallationEvent ==
    [kind |-> "struct", fields |-> <<
    F("action", Enum("CreatedDeleted")), F("installation", Struct("Installation")),
    F("repositories", Vec(Struct("PartialRepository"))), F("sender", Struct("Sender")) >>]
Event_InstallationRepositoriesEvent ==
    [kind |-> "struct", fields |-> <<
    F("action", Enum("AddedRemoved")), F("installation", Struct("Installation")),
    F("repository_selection", String), F("repositories_added", Vec(Struct("PartialRepository"))),
    F("repositories_removed", Vec(Struct("RepositoriesRemoved"))), F("sender", Struct("Sender")) >>]
Event_IssueCommentEvent ==
    [kind |-> "struct", fields |-> <<
    F("action", Enum("CrEdDel")), F("changes", Option(Value)), F("issue", Struct("Issue")),
    F("comment", Struct("Comment")), F("repository", Struct("Repository")),
    F("sender", Struct("Sender")) >>]
Event_IssueEvent ==
    [kind |-> "newtype", inner |-> Struct("IssueEvent")]
Event_LabelEvent ==
    [kind |-> "struct", fields |-> <<
    F("action", Enum("CrEdDel")), F("label", Struct("Label")), F("changes", Option(Value)),
    F("repository", Struct("Repository")), F("sender", Struct("Sender")) >>]
Event_MemberEvent ==
    [kind |-> "struct", fields |-> <<
    F("action", String), F("member", Struct("Member")),
    F("changes", Struct("MemberEventChanges")), F("repository", Struct("Repository")),
    F("sender", Struct("Sender")) >>]
Event_MembershipEvent ==
    [kind |-> "struct", fields |-> <<
    F("action", String), F("scope", String), F("member", Struct("Member")),
    F("sender", Struct("Sender")), F("team", Struct("Team")),
    F("organization", Struct("Organization")) >>]
Event_MilestoneEvent ==
    [kind |-> "struct", fields |-> <<
    F("action", String), F("milestone", Struct("Milestone")), F("changes", Option(Value)),
    F("repository", Struct("Repository")), F("sender", Struct("Sender")) >>]
Event_OrganizationEvent ==
    [kind |-> "struct", fields |-> <<
    F("action", String), F("invitation", Option(Value)), F("membership", Struct("Membership")),
    F("organization", Struct("Organization")), F("sender", Struct("Sender")) >>]
Event_OrgBlockEvent ==
    [kind |-> "struct", fields |-> <<
    F("action", String), F("blocked_user", Struct("User")),
    F("organization", Struct("Organization")), F("sender", Struct("Sender")) >>]
Event_PageBuildEvent ==
    [kind |-> "struct", fields |-> <<
    F("id", i64), F("build", Struct("Build")), F("repository", Struct("Repository")),
    F("sender", Struct("Sender")) >>]
Event_ProjectCardEvent ==
    [kind |-> "struct", fields |-> <<
    F("action", String), F("changes", Option(Value)), F("after_id", Option(isize)),
    F("project_card", Struct("ProjectCard")), F("repository", Struct("Repository")),
    F("sender", Struct("Sender")) >>]
Event_ProjectColumnEvent ==
    [kind |-> "struct", fields |-> <<
    F("action", String), F("changes", Value), F("after_id", Option(isize)),
    F("project_column", Struct("ProjectColumn")), F("repository", Struct("Repository")),
    F("sender", Struct("Sender")) >>]
Event_ProjectEvent ==
    [kind |-> "struct", fields |-> <<
    F("action", String), F("changes", Value), F("project", Struct("Project")),
    F("repository", Struct("Repository")), F("sender", Struct("Sender")) >>]
Event_PublicEvent ==
    [kind |-> "struct", fields |-> <<
    F("repository", Struct("Repository")), F("sender", Struct("Sender")) >>]
Event_PullRequestEvent ==
    [kind |-> "struct", fields |-> <<
    F("action", String), F("number", i64), F("changes", Value),
    F("pull_request", Struct("PullRequest")), F("repository", Struct("Repository")),
    F("sender", Struct("Sender")) >>]
Event_PullRequestReviewEvent ==
    [kind |-> "struct", fields |-> <<
    F("action", String), F("changes", Value), F("review", Struct("Review")),
    F("pull_request", Struct("PullRequest")), F("repository", Struct("Repository")),
    F("sender", Struct("Sender")) >>]
Event_PullRequestReviewCommentEvent ==
    [kind |-> "struct", fields |-> <<
    F("action", String), F("comment", Struct("Comment")), F("changes", Value),
    F("pull_request", Struct("PullRequest")), F("repository", Struct("Repository")),
    F("sender", Struct("Sender")) >>]
Event_PushEvent ==
    [kind |-> "struct", fields |-> <<
    R("ref_field", "ref", String), F("head", Option(String)), F("before", String),
    F("after", String), F("size", isize), F("created", bool), F("deleted", bool),
    F("forced", bool), F("base_ref", Value), F("compare", String),
    F("commits", Vec(Struct("Commit"))), F("head_commit", Value),
    F("repository", Struct("Repository")), F("pusher", Struct("Pusher")),
    F("sender", Struct("Sender")) >>]
Event_ReleaseEvent ==
    [kind |-> "struct", fields |-> <<
    F("action", String), F("release", Struct("Release")), F("repository", Struct("Repository")),
    F("sender", Struct("Sender")) >>]
Event_RepositoryEvent ==
    [kind |-> "struct", fields |-> <<
    F("action", String), F("repository", Struct("Repository")), F("sender", Struct("Sender")) >>]
Event_RepositoryImportEvent ==
    [kind |-> "struct", fields |-> <<
    F("status", String), F("repository", Struct("Repository")),
    F("organization", Struct("Organization")), F("sender", Struct("Sender")) >>]
Event_RepositoryVulnerabilityAlertEvent ==
    [kind |-> "struct", fields |-> <<
    F("action", String), F("alert", Struct("Alert")) >>]
Event_SecurityAdvisoryEvent ==
    [kind |-> "struct", fields |-> <<
    F("action", String), F("security_advisory", Struct("SecurityAdvisory")) >>]
Event_StatusEvent ==
    [kind |-> "struct", fields |-> <<
    F("id", i64), F("sha", String), F("name", String), F("target_url", Option(String)),
    F("context", String), F("description", Option(String)), F("state", String),
    F("commit", Struct("Commit")), F("branches", Vec(Struct("Bran"))), F("created_at", String),
    F("updated_at", String), F("repository", Struct("Repository")),
    F("sender", Struct("Sender")) >>]
Event_TeamEvent ==
    [kind |-> "struct", fields |-> <<
    F("action", Enum("TeamEvent")), F("team", Struct("Team")), F("changes", Value),
    F("repository", Struct("TeamEventRepository")), F("organization", Struct("Organization")),
    F("sender", Struct("Sender")) >>]
Event_TeamAddEvent ==
    [kind |-> "struct", fields |-> <<
    F("team", Struct("Team")), F("repository", Struct("Repository")),
    F("organization", Struct("Organization")), F("sender", Struct("Sender")) >>]
\* Event_WatchEvent as it would be were its action a closed enumeration
\* instead of a String.
Event_WatchEventEnumAction ==
    [kind |-> "struct", fields |-> <<
    F("action", Enum("Created")), F("repository", Struct("Repository")),
    F("sender", Struct("Sender")) >>]

Event_WatchEvent ==
    [kind |-> "struct", fields |-> <<
    F("action", String), F("repository", Struct("Repository")), F("sender", Struct("Sender")) >>]

\* ---- Record types (struct ...), the fields in declaration order.
IssueEvent ==
    << F("action", String), F("issue", Struct("Issue")), F("changes", Option(Value)),
       F("repository", Struct("Repository")), F("sender", Struct("Sender")) >>
CheckRun ==
    << F("id", i64), F("head_sha", String), F("external_id", String), F("url", String),
       F("html_url", String), F("status", String), F("conclusion", Option(String)),
       F("started_at", String), F("completed_at", String), F("output", Struct("Output")),
       F("name", String), F("check_suite", Struct("CheckSuite")), F("app", Struct("App")),
       F("pull_requests", Vec(Value)) >>
Output ==
    << F("title", String), F("summary", String), F("text", String), F("annotations_count", i64),
       F("annotations_url", String) >>
CheckSuite ==
    << F("id", i64), F("head_branch", String), F("head_sha", String), F("status", String),
       F("conclusion", String), F("url", String), F("before", String), F("after", String),
       F("pull_requests", Vec(Value)), F("app", Struct("App")), F("created_at", String),
       F("updated_at", String) >>
App ==
    << F("id", i64), F("node_id", String), F("owner", Struct("Owner")), F("name", String),
       F("description", Value), F("external_url", String), F("html_url", String),
       F("created_at", String), F("updated_at", String) >>
Owner ==
    << F("login", String), F("id", i64), F("node_id", String), F("avatar_url", String),
       F("gravatar_id", String), F("url", String), F("html_url", String),
       F("followers_url", String), F("following_url", String), F("gists_url", String),
       F("starred_url", String), F("subscriptions_url", String), F("organizations_url", String),
       F("repos_url", String), F("events_url", String), F("received_events_url", String),
       R("type_field", "type", String), F("site_admin", bool) >>
Repository ==
    << F("id", i64), F("node_id", String), F("name", String), F("full_name", String),
       F("owner", Struct("Owner")), F("private", bool), F("html_url", String),
       F("description", Value), F("fork", bool), F("url", String), F("forks_url", String),
       F("keys_url", String), F("collaborators_url", String), F("teams_url", String),
       F("hooks_url", String), F("issue_events_url", String), F("events_url", String),
       F("assignees_url", String), F("branches_url", String), F("tags_url", String),
       F("blobs_url", String), F("git_tags_url", String), F("git_refs_url", String),
       F("trees_url", String), F("statuses_url", String), F("languages_url", String),
       F("stargazers_url", String), F("contributors_url", String), F("subscribers_url", String),
       F("subscription_url", String), F("commits_url", String), F("git_commits_url", String),
       F("comments_url", String), F("issue_comment_url", String), F("contents_url", String),
       F("compare_url", String), F("merges_url", String), F("archive_url", String),
       F("downloads_url", String), F("issues_url", String), F("pulls_url", String),
       F("milestones_url", String), F("notifications_url", String), F("labels_url", String),
       F("releases_url", String), F("deployments_url", String), F("created_at", String),
       F("updated_at", String), F("pushed_at", String), F("git_url", String), F("ssh_url", String),
       F("clone_url", String), F("svn_url", String), F("homepage", Value), F("size", i64),
       F("stargazers_count", i64), F("watchers_count", i64), F("language", Value),
       F("has_issues", bool), F("has_projects", bool), F("has_downloads", bool),
       F("has_wiki", bool), F("has_pages", bool), F("forks_count", i64), F("mirror_url", Value),
       F("archived", bool), F("open_issues_count", i64), F("license", Value), F("forks", i64),
       F("open_issues", i64), F("watchers", i64), F("default_branch", String) >>
Organization ==
    << F("login", String), F("id", i64), F("node_id", String), F("url", String),
       F("repos_url", String), F("events_url", String), F("hooks_url", String),
       F("issues_url", String), F("members_url", String), F("public_members_url", String),
       F("avatar_url", String), F("description", String) >>
Sender ==
    << F("login", String), F("id", i64), F("node_id", String), F("avatar_url", String),
       F("gravatar_id", String), F("url", String), F("html_url", String),
       F("followers_url", String), F("following_url", String), F("gists_url", String),
       F("starred_url", String), F("subscriptions_url", String), F("organizations_url", String),
       F("repos_url", String), F("events_url", String), F("received_events_url", String),
       R("type_field", "type", String), F("site_admin", bool) >>
Installation ==
    << F("id", i64), F("account", Struct("Account")), F("repository_selection", String),
       F("access_tokens_url", String), F("repositories_url", String), F("html_url", String),
       F("app_id", i64), F("target_id", i64), F("target_type", String),
       F("permissions", Struct("Permissions")), F("events", Vec(String)), F("created_at", i64),
       F("updated_at", i64), F("single_file_name", String) >>
Author ==
    << F("name", String), F("email", String) >>
User ==
    << F("login", String), F("id", i64), F("node_id", String), F("avatar_url", String),
       F("gravatar_id", String), F("url", String), F("html_url", String),
       F("followers_url", String), F("following_url", String), F("gists_url", String),
       F("starred_url", String), F("subscriptions_url", String), F("organizations_url", String),
       F("repos_url", String), F("events_url", String), F("received_events_url", String),
       R("type_field", "type", String), F("site_admin", bool) >>
Comment ==
    << F("url", String), F("html_url", String), F("id", i64), F("node_id", String),
       F("user", Struct("User")), F("position", Value), F("line", Value), F("path", Value),
       F("commit_id", String), F("created_at", String), F("updated_at", String),
       F("author_association", String), F("body", String) >>
Deployment ==
    << F("url", String), F("id", i64), F("node_id", String), F("sha", String),
       R("ref_field", "ref", String), F("task", String), F("payload", Struct("Payload")),
       F("environment", String), F("description", Value), F("creator", Struct("Creator")),
       F("created_at", String), F("updated_at", String), F("statuses_url", String),
       F("repository_url", String) >>
Payload ==
    << >>
Creator ==
    << F("login", String), F("id", i64), F("node_id", String), F("avatar_url", String),
       F("gravatar_id", String), F("url", String), F("html_url", String),
       F("followers_url", String), F("following_url", String), F("gists_url", String),
       F("starred_url", String), F("subscriptions_url", String), F("organizations_url", String),
       F("repos_url", String), F("events_url", String), F("received_events_url", String),
       R("type_field", "type", String), F("site_admin", bool) >>
DeploymentStatus ==
    << F("url", String), F("id", i64), F("node_id", String), F("state", String),
       F("creator", Struct("Creator")), F("description", String), F("target_url", String),
       F("created_at", String), F("updated_at", String), F("deployment_url", String),
       F("repository_url", String) >>
Forkee ==
    << F("id", i64), F("node_id", String), F("name", String), F("full_name", String),
       F("owner", Struct("Owner")), F("private", bool), F("html_url", String),
       F("description", Value), F("fork", bool), F("url", String), F("forks_url", String),
       F("keys_url", String), F("collaborators_url", String), F("teams_url", String),
       F("hooks_url", String), F("issue_events_url", String), F("events_url", String),
       F("assignees_url", String), F("branches_url", String), F("tags_url", String),
       F("blobs_url", String), F("git_tags_url", String), F("git_refs_url", String),
       F("trees_url", String), F("statuses_url", String), F("languages_url", String),
       F("stargazers_url", String), F("contributors_url", String), F("subscribers_url", String),
       F("subscription_url", String), F("commits_url", String), F("git_commits_url", String),
       F("comments_url", String), F("issue_comment_url", String), F("contents_url", String),
       F("compare_url", String), F("merges_url", String), F("archive_url", String),
       F("downloads_url", String), F("issues_url", String), F("pulls_url", String),
       F("milestones_url", String), F("notifications_url", String), F("labels_url", String),
       F("releases_url", String), F("deployments_url", String), F("created_at", String),
       F("updated_at", String), F("pushed_at", String), F("git_url", String), F("ssh_url", String),
       F("clone_url", String), F("svn_url", String), F("homepage", Value), F("size", i64),
       F("stargazers_count", i64), F("watchers_count", i64), F("language", Value),
       F("has_issues", bool), F("has_projects", bool), F("has_downloads", bool),
       F("has_wiki", bool), F("has_pages", bool), F("forks_count", i64), F("mirror_url", Value),
       F("archived", bool), F("open_issues_count", i64), F("license", Value), F("forks", i64),
       F("open_issues", i64), F("watchers", i64), F("default_branch", String), F("public", bool) >>
Page ==
    << F("page_name", String), F("title", String), F("summary", Value), F("action", String),
       F("sha", String), F("html_url", String) >>
Account ==
    << F("login", String), F("id", i64), F("node_id", String), F("avatar_url", String),
       F("gravatar_id", String), F("url", String), F("html_url", String),
       F("followers_url", String), F("following_url", String), F("gists_url", String),
       F("starred_url", String), F("subscriptions_url", String), F("organizations_url", String),
       F("repos_url", String), F("events_url", String), F("received_events_url", String),
       R("type_field", "type", String), F("site_admin", bool) >>
Permissions ==
    << F("metadata", String), F("contents", String), F("issues", String) >>
PartialRepository ==
    << F("id", i64), F("name", String), F("full_name", String), F("private", bool) >>
RepositoriesRemoved ==
    << F("id", i64), F("name", String), F("full_name", String), F("private", bool) >>
Issue ==
    << F("url", String), F("repository_url", String), F("labels_url", String),
       F("comments_url", String), F("events_url", String), F("html_url", String), F("id", i64),
       F("node_id", String), F("number", i64), F("title", String), F("user", Struct("User")),
       F("labels", Vec(Struct("Label"))), F("state", String), F("locked", bool),
       F("assignee", Value), F("assignees", Vec(Value)), F("milestone", Value), F("comments", i64),
       F("created_at", String), F("updated_at", String), F("closed_at", Value),
       F("author_association", String), F("body", String) >>
Label ==
    << F("id", i64), F("node_id", String), F("url", String), F("name", String), F("color", String),
       F("default", bool) >>
Member ==
    << F("login", String), F("id", i64), F("node_id", String), F("avatar_url", String),
       F("gravatar_id", String), F("url", String), F("html_url", String),
       F("followers_url", String), F("following_url", String), F("gists_url", String),
       F("starred_url", String), F("subscriptions_url", String), F("organizations_url", String),
       F("repos_url", String), F("events_url", String), F("received_events_url", String),
       R("type_field", "type", String), F("site_admin", bool) >>
MemberEventChanges ==
    << F("permission", Struct("Permission")) >>
Permission ==
    << F("from", String) >>
Team ==
    << F("name", String), F("id", i64), F("node_id", String), F("slug", String),
       F("description", String), F("privacy", String), F("url", String), F("members_url", String),
       F("repositories_url", String), F("permission", String) >>
Milestone ==
    << F("url", String), F("html_url", String), F("labels_url", String), F("id", i64),
       F("node_id", String), F("number", i64), F("title", String), F("description", String),
       F("creator", Struct("Creator")), F("open_issues", i64), F("closed_issues", i64),
       F("state", String), F("created_at", String), F("updated_at", String), F("due_on", String),
       F("closed_at", Value) >>
Membership ==
    << F("url", String), F("state", String), F("role", String), F("organization_url", String),
       F("user", Struct("User")) >>
Build ==
    << F("url", String), F("status", String), F("error", Struct("Error")),
       F("pusher", Struct("Pusher")), F("commit", String), F("duration", i64),
       F("created_at", String), F("updated_at", String) >>
Error ==
    << F("message", Value) >>
Pusher ==
    << F("login", String), F("id", i64), F("node_id", String), F("avatar_url", String),
       F("gravatar_id", String), F("url", String), F("html_url", String),
       F("followers_url", String), F("following_url", String), F("gists_url", String),
       F("starred_url", String), F("subscriptions_url", String), F("organizations_url", String),
       F("repos_url", String), F("events_url", String), F("received_events_url", String),
       R("type_field", "type", String), F("site_admin", bool) >>
ProjectCard ==
    << F("url", String), F("project_url", String), F("column_url", String), F("column_id", i64),
       F("id", i64), F("node_id", String), F("note", String), F("creator", Struct("Creator")),
       F("created_at", String), F("updated_at", String) >>
ProjectColumn ==
    << F("url", String), F("project_url", String), F("cards_url", String), F("id", i64),
       F("node_id", String), F("name", String), F("created_at", String), F("updated_at", String) >>
Project ==
    << F("owner_url", String), F("url", String), F("html_url", String), F("columns_url", String),
       F("id", i64), F("node_id", String), F("name", String), F("body", String), F("number", i64),
       F("state", String), F("creator", Struct("Creator")), F("created_at", String),
       F("updated_at", String) >>
PullRequest ==
    << F("url", String), F("id", i64), F("node_id", String), F("html_url", String),
       F("diff_url", String), F("patch_url", String), F("issue_url", String), F("number", i64),
       F("state", String), F("locked", bool), F("title", String), F("user", Struct("User")),
       F("body", String), F("created_at", String), F("updated_at", String), F("closed_at", String),
       F("merged_at", Value), F("merge_commit_sha", String), F("assignee", Value),
       F("assignees", Vec(Value)), F("requested_reviewers", Vec(Value)),
       F("requested_teams", Vec(Value)), F("labels", Vec(Value)), F("milestone", Value),
       F("commits_url", String), F("review_comments_url", String), F("review_comment_url", String),
       F("comments_url", String), F("statuses_url", String), F("head", Struct("Head")),
       F("base", Struct("Base")), F("_links", Struct("Links")), F("author_association", String),
       F("merged", bool), F("mergeable", bool), F("rebaseable", bool), F("mergeable_state", String),
       F("merged_by", Value), F("comments", i64), F("review_comments", i64),
       F("maintainer_can_modify", bool), F("commits", i64), F("additions", i64),
       F("deletions", i64), F("changed_files", i64) >>
Head_ ==
    << F("label", String), R("ref_field", "ref", String), F("sha", String),
       F("user", Struct("User")), F("repo", Struct("Repository")) >>
Base ==
    << F("label", String), R("ref_field", "ref", String), F("sha", String),
       F("user", Struct("User")), F("repo", Struct("Repository")) >>
Links ==
    << R("self_field", "self", Struct("Link")), F("html", Struct("Link")),
       F("issue", Struct("Link")), F("comments", Struct("Link")),
       F("review_comments", Struct("Link")), F("review_comment", Struct("Link")),
       F("commits", Struct("Link")), F("statuses", Struct("Link")) >>
Link ==
    << F("href", String) >>
Review ==
    << F("id", i64), F("node_id", String), F("user", Struct("User")), F("body", Value),
       F("commit_id", String), F("submitted_at", String), F("state", String), F("html_url", String),
       F("pull_request_url", String), F("author_association", String),
       F("_links", Struct("ReviewLinks")) >>
ReviewLinks ==
    << F("html", Struct("Link")), F("pull_request", Struct("PullRequest")) >>
Commit ==
    << F("sha", String), F("message", String), F("author", Struct("Author")), F("url", String),
       F("distinct", bool) >>
Release ==
    << F("url", String), F("assets_url", String), F("upload_url", String), F("html_url", String),
       F("id", i64), F("node_id", String), F("tag_name", String), F("target_commitish", String),
       F("name", Value), F("draft", bool), F("author", Struct("ReleaseAuthor")),
       F("prerelease", bool), F("created_at", String), F("published_at", String),
       F("assets", Vec(Value)), F("tarball_url", String), F("zipball_url", String),
       F("body", Value) >>
ReleaseAuthor ==
    << F("login", String), F("id", i64), F("node_id", String), F("avatar_url", String),
       F("gravatar_id", String), F("url", String), F("html_url", String),
       F("followers_url", String), F("following_url", String), F("gists_url", String),
       F("starred_url", String), F("subscriptions_url", String), F("organizations_url", String),
       F("repos_url", String), F("events_url", String), F("received_events_url", String),
       R("type_field", "type", String), F("site_admin", bool) >>
Alert ==
    << F("id", i64), F("affected_range", String), F("affected_package_name", String),
       F("external_reference", String), F("external_identifier", String), F("fixed_in", String),
       F("dismisser", Struct("User")), F("dismiss_reason", String), F("dismissed_at", String) >>
SecurityAdvisory ==
    << F("ghsa_id", String), F("summary", String), F("description", String), F("severity", String),
       F("identifiers", Vec(Struct("Identifier"))), F("references", Vec(Struct("Reference"))),
       F("published_at", String), F("updated_at", String), F("withdrawn_at", Value),
       F("vulnerabilities", Vec(Struct("Vulnerability"))) >>
Identifier ==
    << F("value", String), R("type_field", "type", String) >>
Reference ==
    << F("url", String) >>
Vulnerability ==
    << F("package", Struct("Package")), F("severity", String),
       F("vulnerable_version_range", String),
       F("first_patched_version", Struct("FirstPatchedVersion")) >>
Package ==
    << F("ecosystem", String), F("name", String) >>
FirstPatchedVersion ==
    << F("identifier", String) >>
Bran ==
    << F("name", String), F("commit", Struct("Commit")) >>
TeamEventRepository ==
    << F("id", i64), F("node_id", String), F("name", String), F("full_name", String),
       F("owner", Struct("Owner")), F("private", bool), F("html_url", String),
       F("description", Value), F("fork", bool), F("url", String), F("forks_url", String),
       F("keys_url", String), F("collaborators_url", String), F("teams_url", String),
       F("hooks_url", String), F("issue_events_url", String), F("events_url", String),
       F("assignees_url", String), F("branches_url", String), F("tags_url", String),
       F("blobs_url", String), F("git_tags_url", String), F("git_refs_url", String),
       F("trees_url", String), F("statuses_url", String), F("languages_url", String),
       F("stargazers_url", String), F("contributors_url", String), F("subscribers_url", String),
       F("subscription_url", String), F("commits_url", String), F("git_commits_url", String),
       F("comments_url", String), F("issue_comment_url", String), F("contents_url", String),
       F("compare_url", String), F("merges_url", String), F("archive_url", String),
       F("downloads_url", String), F("issues_url", String), F("pulls_url", String),
       F("milestones_url", String), F("notifications_url", String), F("labels_url", String),
       F("releases_url", String), F("deployments_url", String), F("created_at", String),
       F("updated_at", String), F("pushed_at", String), F("git_url", String), F("ssh_url", String),
       F("clone_url", String), F("svn_url", String), F("homepage", Value), F("size", i64),
       F("stargazers_count", i64), F("watchers_count", i64), F("language", Value),
       F("has_issues", bool), F("has_projects", bool), F("has_downloads", bool),
       F("has_wiki", bool), F("has_pages", bool), F("forks_count", i64), F("mirror_url", Value),
       F("archived", bool), F("open_issues_count", i64), F("license", Value), F("forks", i64),
       F("open_issues", i64), F("watchers", i64), F("default_branch", String),
       F("permissions", Struct("TeamEventPermissions")) >>
TeamEventPermissions ==
    << F("pull", bool), F("push", bool), F("admin", bool) >>

VariantNames ==
    << "CheckRunEvent", "CheckSuiteEvent", "CommitCommentEvent", "CreateEvent",
       "DeleteEvent", "DeploymentEvent", "DeploymentStatusEvent", "ForkEvent",
       "GitHubAppAuthorizationEvent", "GollumEvent", "InstallationEvent", "InstallationRepositoriesEvent",
       "IssueCommentEvent", "IssueEvent", "LabelEvent", "MemberEvent",
       "MembershipEvent", "MilestoneEvent", "OrganizationEvent", "OrgBlockEvent",
       "PageBuildEvent", "ProjectCardEvent", "ProjectColumnEvent", "ProjectEvent",
       "PublicEvent", "PullRequestEvent", "PullRequestReviewEvent", "PullRequestReviewCommentEvent",
       "PushEvent", "ReleaseEvent", "RepositoryEvent", "RepositoryImportEvent",
       "RepositoryVulnerabilityAlertEvent", "SecurityAdvisoryEvent", "StatusEvent", "TeamEvent",
       "TeamAddEvent", "WatchEvent" >>

Variant(name) ==
    CASE name = "CheckRunEvent" -> Event_CheckRunEvent
      [] name = "CheckSuiteEvent" -> Event_CheckSuiteEvent
      [] name = "CommitCommentEvent" -> Event_CommitCommentEvent
      [] name = "CreateEvent" -> Event_CreateEvent
      [] name = "DeleteEvent" -> Event_DeleteEvent
      [] name = "DeploymentEvent" -> Event_DeploymentEvent
      [] name = "DeploymentStatusEvent" -> Event_DeploymentStatusEvent
      [] name = "ForkEvent" -> Event_ForkEvent
      [] name = "GitHubAppAuthorizationEvent" -> Event_GitHubAppAuthorizationEvent
      [] name = "GollumEvent" -> Event_GollumEvent
      [] name = "InstallationEvent" -> Event_InstallationEvent
      [] name = "InstallationRepositoriesEvent" -> Event_InstallationRepositoriesEvent
      [] name = "IssueCommentEvent" -> Event_IssueCommentEvent
      [] name = "IssueEvent" -> Event_IssueEvent
      [] name = "LabelEvent" -> Event_LabelEvent
      [] name = "MemberEvent" -> Event_MemberEvent
      [] name = "MembershipEvent" -> Event_MembershipEvent
      [] name = "MilestoneEvent" -> Event_MilestoneEvent
      [] name = "OrganizationEvent" -> Event_OrganizationEvent
      [] name = "OrgBlockEvent" -> Event_OrgBlockEvent
      [] name = "PageBuildEvent" -> Event_PageBuildEvent
      [] name = "ProjectCardEvent" -> Event_ProjectCardEvent
      [] name = "ProjectColumnEvent" -> Event_ProjectColumnEvent
      [] name = "ProjectEvent" -> Event_ProjectEvent
      [] name = "PublicEvent" -> Event_PublicEvent
      [] name = "PullRequestEvent" -> Event_PullRequestEvent
      [] name = "PullRequestReviewEvent" -> Event_PullRequestReviewEvent
      [] name = "PullRequestReviewCommentEvent" -> Event_PullRequestReviewCommentEvent
      [] name = "PushEvent" -> Event_PushEvent
      [] name = "ReleaseEvent" -> Event_ReleaseEvent
      [] name = "RepositoryEvent" -> Event_RepositoryEvent
      [] name = "RepositoryImportEvent" -> Event_RepositoryImportEvent
      [] name = "RepositoryVulnerabilityAlertEvent" -> Event_RepositoryVulnerabilityAlertEvent
      [] name = "SecurityAdvisoryEvent" -> Event_SecurityAdvisoryEvent
      [] name = "StatusEvent" -> Event_StatusEvent
      [] name = "TeamEvent" -> Event_TeamEvent
      [] name = "TeamAddEvent" -> Event_TeamAddEvent
      [] name = "WatchEvent" -> Event_WatchEvent

StructFields(name) ==
    CASE name = "IssueEvent" -> IssueEvent
      [] name = "CheckRun" -> CheckRun
      [] name = "Output" -> Output
      [] name = "CheckSuite" -> CheckSuite
      [] name = "App" -> App
      [] name = "Owner" -> Owner
      [] name = "Repository" -> Repository
      [] name = "Organization" -> Organization
      [] name = "Sender" -> Sender
      [] name = "Installation" -> Installation
      [] name = "Author" -> Author
      [] name = "User" -> User
      [] name = "Comment" -> Comment
      [] name = "Deployment" -> Deployment
      [] name = "Payload" -> Payload
      [] name = "Creator" -> Creator
      [] name = "DeploymentStatus" -> DeploymentStatus
      [] name = "Forkee" -> Forkee
      [] name = "Page" -> Page
      [] name = "Account" -> Account
      [] name = "Permissions" -> Permissions
      [] name = "PartialRepository" -> PartialRepository
      [] name = "RepositoriesRemoved" -> RepositoriesRemoved
      [] name = "Issue" -> Issue
      [] name = "Label" -> Label
      [] name = "Member" -> Member
      [] name = "MemberEventChanges" -> MemberEventChanges
      [] name = "Permission" -> Permission
      [] name = "Team" -> Team
      [] name = "Milestone" -> Milestone
      [] name = "Membership" -> Membership
      [] name = "Build" -> Build
      [] name = "Error" -> Error
      [] name = "Pusher" -> Pusher
      [] name = "ProjectCard" -> ProjectCard
      [] name = "ProjectColumn" -> ProjectColumn
      [] name = "Project" -> Project
      [] name = "PullRequest" -> PullRequest
      [] name = "Head" -> Head_
      [] name = "Base" -> Base
      [] name = "Links" -> Links
      [] name = "Link" -> Link
      [] name = "Review" -> Review
      [] name = "ReviewLinks" -> ReviewLinks
      [] name = "Commit" -> Commit
      [] name = "Release" -> Release
      [] name = "ReleaseAuthor" -> ReleaseAuthor
      [] name = "Alert" -> Alert
      [] name = "SecurityAdvisory" -> SecurityAdvisory
      [] name = "Identifier" -> Identifier
      [] name = "Reference" -> Reference
      [] name = "Vulnerability" -> Vulnerability
      [] name = "Package" -> Package
      [] name = "FirstPatchedVersion" -> FirstPatchedVersion
      [] name = "Bran" -> Bran
      [] name = "TeamEventRepository" -> TeamEventRepository
      [] name = "TeamEventPermissions" -> TeamEventPermissions

\* ------------------------------------------------------------------------
\* Results: Ok(value) or a serde_json::Error.  An error carries its message's
\* parts (code: which serde::de::Error constructor made it; what: the name or
\* the expectation the message quotes; found: the JSON kind it met).  It
\* carries no field path: serde_json locates an error by line and column of
\* the text only.
\* ------------------------------------------------------------------------
Ok(v) == [ok |-> TRUE, v |-> v]
Err(code, what, found) == [ok |-> FALSE, code |-> code, what |-> what, found |-> found]

None == [some |-> FALSE]
Some(v) == [some |-> TRUE, v |-> v]

\* KeyIndex(keys): the function from each key of the sequence to the position
\* of its first occurrence (the halves are merged, the left one winning).
RECURSIVE KeyIndexIn(_, _, _)
KeyIndexIn(keys, lo, hi) ==
    IF lo = hi THEN keys[lo] :> lo
    ELSE LET mid == (lo + hi) \div 2
         IN  KeyIndexIn(keys, lo, mid) @@ KeyIndexIn(keys, mid + 1, hi)

KeyIndex(keys) == IF Len(keys) = 0 THEN << >> ELSE KeyIndexIn(keys, 1, Len(keys))

VariantIndex(variants, key) ==
    LET S == {i \in 1..Len(variants) : variants[i].wire = key}
    IN  IF S = {} THEN 0 ELSE CHOOSE i \in S : TRUE

\* Number widths.  TLC's integers do not reach 2^63, so the 64-bit integers
\* are modelled with IntBits bits and the 53-bit significand of an f64 with
\* IntBits - 1 bits: as with the real widths, i64::MAX < u64::MAX and the
\* integers just above u64::MAX are not all exact as an f64.
IntBits == 4

RECURSIVE Pow2(_)
Pow2(n) == IF n = 0 THEN 1 ELSE 2 * Pow2(n - 1)

I64_MAX == Pow2(IntBits - 1) - 1
I64_MIN == 0 - Pow2(IntBits - 1)
U64_MAX == Pow2(IntBits) - 1
MANTISSA_DIGITS == IntBits - 1

\* The number of binary digits of n >= 0.
RECURSIVE BitLen(_)
BitLen(n) == IF n = 0 THEN 0 ELSE 1 + BitLen(n \div 2)

\* The multiple of the spacing q nearest to a >= 0 (round half to even).
RoundTo(a, q) ==
    IF 2 * (a % q) > q \/ (2 * (a % q) = q /\ (a \div q) % 2 = 1)
    THEN (a \div q + 1) * q
    ELSE (a \div q) * q

\* The spacing of the f64 values at a number of so many binary digits.
Spacing(digits) ==
    IF digits > MANTISSA_DIGITS THEN Pow2(digits - MANTISSA_DIGITS) ELSE 1

\* The f64 nearest to the integer n.
ToF64(n) ==
    IF n < 0 THEN 0 - RoundTo(0 - n, Spacing(BitLen(0 - n)))
    ELSE RoundTo(n, Spacing(BitLen(n)))

\* ParseNumber as a parser that saturates would be: an integer literal that
\* does not fit is the nearest 64-bit integer.
ParseNumberSaturating(j) ==
    IF j.k # "num" THEN [k |-> "float", f |-> ToF64(j.f)]
    ELSE IF j.n > U64_MAX THEN JNum(U64_MAX)
    ELSE IF j.n < I64_MIN THEN JNum(I64_MIN)
    ELSE j

\* serde_json's parse of a number literal (Deserializer::parse_any_number):
\* an integer literal is a u64 or an i64 when it fits and an f64 otherwise;
\* a literal with a fraction or an exponent is an f64.
ParseNumber(j) ==
    IF j.k = "num" /\ j.n >= I64_MIN /\ j.n <= U64_MAX THEN j
    ELSE [k |-> "float", f |-> ToF64(IF j.k = "num" THEN j.n ELSE j.f)]

\* serde_json::Value as Deserialize: any JSON value is taken; a number is
\* kept as parsed; an object becomes a Map (a BTreeMap: one entry per key,
\* the last duplicate wins).
RECURSIVE ToValue(_)
ToValue(j) ==
    CASE j.k = "arr" -> [k |-> "arr", items |-> [i \in 1..Len(j.items) |-> ToValue(j.items[i])]]
      [] j.k = "obj" ->
            LET keys == {j.members[i].key : i \in 1..Len(j.members)}
                last(key) == CHOOSE i \in 1..Len(j.members) :
                                /\ j.members[i].key = key
                                /\ \A n \in (i+1)..Len(j.members) : j.members[n].key # key
            IN  [k |-> "obj", map |-> [key \in keys |-> ToValue(j.members[last(key)].val)]]
      [] j.k \in {"num", "float"} -> ParseNumber(j)
      [] OTHER -> j

\* Strict(f) is f.  TLC evaluates a function constructor once per
\* application; comparing the function makes it evaluate it once and keep it.
Strict(f) == IF f = f THEN f ELSE f

\* The smallest member of a non-empty set of positions.
First(S) == CHOOSE i \in S : \A n \in S : i <= n

\* Missing as it would be if an absent ::serde_json::Value were null, as
\* an absent Option is None.
MissingOpaqueOptional(fields, got) ==
    {i \in 1..Len(fields) : i \notin DOMAIN got /\ fields[i].ty.c \notin {"Option", "Value"}}

\* The declared fields that are not Option and have no value among got.
Missing(fields, got) ==
    {i \in 1..Len(fields) : i \notin DOMAIN got /\ fields[i].ty.c # "Option"}

\* The struct of the values got, by field name; a field without one is None.
Built(names, got) ==
    Ok([n \in DOMAIN names |-> IF names[n] \in DOMAIN got THEN got[names[n]] ELSE None])

\* Finish as it would be did it name a missing field by its Rust name, the
\* #[serde(rename)] of the field being lost.
FinishRustName(fields, got) ==
    IF Missing(fields, got) # {}
    THEN Err("missing_field", fields[First(Missing(fields, got))].name, "")
    ELSE Built(KeyIndex([i \in 1..Len(fields) |-> fields[i].name]), got)

\* Finish as it would be were every field declared Option: a missing field
\* is None, never an error.
FinishAllOptional(fields, got) ==
    Built(KeyIndex([i \in 1..Len(fields) |-> fields[i].name]), got)

\* The struct a finished visit builds from the values got (a function from
\* field positions to values): a missing Option field is None, any other
\* missing field is an error, the first one in declaration order.
Finish(fields, got) ==
    IF Missing(fields, got) # {}
    THEN Err("missing_field", fields[First(Missing(fields, got))].wire, "")
    ELSE Built(KeyIndex([i \in 1..Len(fields) |-> fields[i].name]), got)

RECURSIVE Deserialize(_, _)

\* The positions of the results that are errors.
Failed(rs) == {i \in DOMAIN rs : ~rs[i].ok}

\* The end of a visit_map whose members gave the results rs: the first
\* error in document order, or the struct of the values (first: the
\* position of each key's first member).
EndMap(fields, first, rs) ==
    IF Failed(rs) # {} THEN rs[First(Failed(rs))]
    ELSE Finish(fields, Strict([i \in {n \in 1..Len(fields) : fields[n].wire \in DOMAIN first} |->
                                    rs[first[fields[i].wire]].v]))

\* VisitMembers as #[serde(deny_unknown_fields)] would make it: an
\* undeclared key is an error.
VisitMembersDenyUnknown(fields, ms, wires, first) ==
    Strict([i \in 1..Len(ms) |->
        IF ms[i].key \notin DOMAIN wires THEN Err("unknown_field", ms[i].key, "")
        ELSE IF first[ms[i].key] # i THEN Err("duplicate_field", ms[i].key, "")
        ELSE Deserialize(fields[wires[ms[i].key]].ty, ms[i].val)])

\* VisitMembers as it would be if a repeated key were let through, the
\* first member standing (the later one skipped like an unknown key).
VisitMembersKeepFirst(fields, ms, wires, first) ==
    Strict([i \in 1..Len(ms) |->
        IF ms[i].key \notin DOMAIN wires THEN Ok(JNull)
        ELSE IF first[ms[i].key] # i THEN Ok(JNull)
        ELSE Deserialize(fields[wires[ms[i].key]].ty, ms[i].val)])

\* The members of an object visited in document order (wires: the position
\* of each declared wire name): an unknown key is skipped (IgnoredAny), a
\* declared key met a second time is duplicate_field, any other member is
\* deserialized as its field's type.
VisitMembers(fields, ms, wires, first) ==
    Strict([i \in 1..Len(ms) |->
        IF ms[i].key \notin DOMAIN wires THEN Ok(JNull)
        ELSE IF first[ms[i].key] # i THEN Err("duplicate_field", ms[i].key, "")
        ELSE Deserialize(fields[wires[ms[i].key]].ty, ms[i].val)])

VisitMapIndexed(fields, ms, wires, first) ==
    EndMap(fields, first, VisitMembers(fields, ms, wires, first))

\* VisitMap as it would be without the #[serde(rename = "...")] attributes:
\* the members are matched against the fields' Rust names.
VisitMapRustName(fields, ms) ==
    VisitMapIndexed(fields, ms, KeyIndex([i \in 1..Len(fields) |-> fields[i].name]),
                    KeyIndex([i \in 1..Len(ms) |-> ms[i].key]))

\* Visitor::visit_map of a derived struct.  The visit stops at the first
\* member that fails; when none does, Finish builds the struct.
VisitMap(fields, ms) ==
    VisitMapIndexed(fields, ms, KeyIndex([i \in 1..Len(fields) |-> fields[i].wire]),
                    KeyIndex([i \in 1..Len(ms) |-> ms[i].key]))

\* The end of a visit_seq whose elements gave the results rs: the first
\* error; invalid_length for an array shorter than the field list; a longer
\* one is refused by serde_json when it closes the array (end_seq).
EndSeq(fields, items, rs) ==
    IF Failed(rs) # {} THEN rs[First(Failed(rs))]
    ELSE IF Len(items) < Len(fields) THEN Err("invalid_length", "struct", "")
    ELSE IF Len(items) > Len(fields) THEN Err("syntax", "trailing characters", "")
    ELSE Finish(fields, Strict([i \in DOMAIN rs |-> rs[i].v]))

\* Visitor::visit_seq of a derived struct: the fields by position.
VisitSeq(fields, items) ==
    EndSeq(fields, items,
           Strict([i \in 1..(IF Len(items) < Len(fields) THEN Len(items) ELSE Len(fields)) |->
                    Deserialize(fields[i].ty, items[i])]))

EndVec(rs) ==
    IF Failed(rs) # {} THEN rs[First(Failed(rs))] ELSE Ok([i \in DOMAIN rs |-> rs[i].v])

\* Vec<T>: the elements in order, the first that fails ends the visit.
VisitVec(t, items) ==
    EndVec(Strict([i \in 1..Len(items) |-> Deserialize(t, items[i])]))

\* serde_json's deserialize_struct: an object or an array, nothing else.
\* DeserializeStruct as it would be if a struct declared without fields
\* were a unit struct, which is written null.
DeserializeStructUnitWhenEmpty(expected, fields, j) ==
    CASE fields = << >> ->
            IF j.k = "null" THEN Ok(<< >>) ELSE Err("invalid_type", "unit struct", j.k)
      [] j.k = "obj" -> VisitMap(fields, j.members)
      [] j.k = "arr" -> VisitSeq(fields, j.items)
      [] OTHER -> Err("invalid_type", expected, j.k)

DeserializeStruct(expected, fields, j) ==
    CASE j.k = "obj" -> VisitMap(fields, j.members)
      [] j.k = "arr" -> VisitSeq(fields, j.items)
      [] OTHER -> Err("invalid_type", expected, j.k)

\* DeserializeEnum as #[serde(other)] on the last variant would make it: a
\* string that names no variant is that variant.
DeserializeEnumOther(variants, j) ==
    CASE j.k = "str" ->
            LET vi == VariantIndex(variants, j.s)
            IN  Ok(variants[IF vi = 0 THEN Len(variants) ELSE vi].name)
      [] OTHER -> Err("syntax", "expected value", j.k)

\* A unit-only enum (the action enumerations): the variant's wire name as a
\* string, or the externally tagged form {"name": null}.
DeserializeEnum(variants, j) ==
    CASE j.k = "str" ->
            LET vi == VariantIndex(variants, j.s)
            IN  IF vi = 0 THEN Err("unknown_variant", j.s, "")
                ELSE Ok(variants[vi].name)
      [] j.k = "obj" ->
            IF Len(j.members) = 0 THEN Err("syntax", "expected value", "obj")
            ELSE LET vi == VariantIndex(variants, j.members[1].key)
                 IN  IF vi = 0 THEN Err("unknown_variant", j.members[1].key, "")
                     ELSE IF j.members[1].val.k # "null"
                     THEN Err("invalid_type", "unit variant", j.members[1].val.k)
                     ELSE IF Len(j.members) > 1 THEN Err("syntax", "expected end of object", "")
                     ELSE Ok(variants[vi].name)
      [] OTHER -> Err("syntax", "expected value", j.k)

\* DeserializeInteger as a lenient integer would be: a string is taken for
\* the number it spells (0 when it spells none).
DeserializeIntegerLenient(t, j) ==
    IF j.k = "str" THEN Ok(0)
    ELSE IF j.k # "num" \/ j.n < I64_MIN \/ j.n > I64_MAX THEN Err("invalid_type", t.c, j.k)
    ELSE Ok(j.n)

\* VisitNumber as it would be with a cast (n as i64): a u64 above i64::MAX
\* wraps modulo 2^64.
VisitNumberWrapping(t, n) ==
    IF n.k = "float" THEN Err("invalid_type", t.c, "float")
    ELSE IF n.n > I64_MAX THEN Ok(n.n - Pow2(IntBits))
    ELSE Ok(n.n)

\* The i64 of a parsed number: an f64 is an invalid type, a u64 above
\* i64::MAX an invalid value.
VisitNumber(t, n) ==
    IF n.k = "float" THEN Err("invalid_type", t.c, "float")
    ELSE IF n.n > I64_MAX THEN Err("invalid_value", t.c, "num")
    ELSE Ok(n.n)

\* i64 and isize (64 bits wide on the 64-bit targets): a JSON integer that
\* fits an i64.
DeserializeInteger(t, j) ==
    IF j.k \notin {"num", "float"} THEN Err("invalid_type", t.c, j.k)
    ELSE VisitNumber(t, ParseNumber(j))

\* DeserializeValue as an Option<String> field would be: null or a string.
DeserializeValueStringOrNull(j) ==
    IF j.k \in {"null", "str"} THEN Ok(j) ELSE Err("invalid_type", "a string", j.k)

\* serde_json::Value: whatever the JSON value is.
DeserializeValue(j) == Ok(ToValue(j))

\* <T as Deserialize>::deserialize for a field of type t, from JSON j.
Deserialize(t, j) ==
    CASE t.c = "String" ->
            IF j.k = "str" THEN Ok(j.s) ELSE Err("invalid_type", "a string", j.k)
      [] t.c \in {"i64", "isize"} -> DeserializeInteger(t, j)
      [] t.c = "bool" ->
            IF j.k = "bool" THEN Ok(j.b) ELSE Err("invalid_type", "a boolean", j.k)
      [] t.c = "Value" -> DeserializeValue(j)
      [] t.c = "Option" ->
            IF j.k = "null" THEN Ok(None)
            ELSE LET r == Deserialize(t.of, j)
                 IN  IF r.ok THEN Ok(Some(r.v)) ELSE r
      [] t.c = "Vec" ->
            IF j.k = "arr" THEN VisitVec(t.of, j.items)
            ELSE Err("invalid_type", "a sequence", j.k)
      [] t.c = "Struct" -> DeserializeStruct("struct", StructFields(t.n), j)
      [] t.c = "Enum" -> DeserializeEnum(EnumVariants(t.n), j)

EventVariantIndex(key) ==
    LET S == {i \in 1..Len(VariantNames) : VariantNames[i] = key}
    IN  IF S = {} THEN 0 ELSE CHOOSE i \in S : TRUE

\* The Event of a variant whose content gave the result r.
Tagged(name, r) == IF r.ok THEN Ok([variant |-> name, fields |-> r.v]) ELSE r

VariantContent(var, j) ==
    IF var.kind = "newtype" THEN Deserialize(var.inner, j)
    ELSE DeserializeStruct("struct variant", var.fields, j)

\* The content of an Event variant: a struct variant's fields, or the inner
\* type of a newtype variant.
\* DeserializeVariant as it would be if the payload's shape chose the
\* variant: the first variant in declaration order whose fields the payload
\* fits, whatever the name says.
DeserializeVariantGuessing(name, j) ==
    LET fits == {i \in 1..Len(VariantNames) :
                    VariantContent(Variant(VariantNames[i]), j).ok}
    IN  IF fits = {} THEN Tagged(name, VariantContent(Variant(name), j))
        ELSE Tagged(VariantNames[CHOOSE i \in fits : \A k \in fits : i <= k],
                    VariantContent(Variant(VariantNames[CHOOSE i \in fits :
                                                            \A k \in fits : i <= k]), j))

DeserializeVariant(name, j) == Tagged(name, VariantContent(Variant(name), j))

\* The first variant, in declaration order, whose content a document is.
FirstFit(j, rs) ==
    IF Failed(rs) = DOMAIN rs
    THEN Err("custom", "data did not match any variant of untagged enum Event", "")
    ELSE rs[First(DOMAIN rs \ Failed(rs))]

\* DeserializeEvent as #[serde(untagged)] would make it: the document is the
\* content of the first variant, in declaration order, that accepts it.
DeserializeEventUntagged(j) ==
    FirstFit(j, Strict([i \in 1..Len(VariantNames) |-> DeserializeVariant(VariantNames[i], j)]))

\* After the variant's content: the object must end.
EndEvent(j, r) ==
    IF ~r.ok THEN r
    ELSE IF Len(j.members) > 1 THEN Err("syntax", "expected end of object", "")
    ELSE r

\* DeserializeEvent as it would be with a structural fallback: a document
\* whose first key is no variant's name is matched against the variants'
\* fields, the first that fits winning.
DeserializeEventFallback(j) ==
    CASE j.k = "str" ->
            IF EventVariantIndex(j.s) = 0 THEN Err("unknown_variant", j.s, "")
            ELSE Err("invalid_type", Variant(j.s).kind \o " variant", "unit variant")
      [] j.k = "obj" ->
            IF Len(j.members) = 0 THEN Err("syntax", "expected value", "obj")
            ELSE IF EventVariantIndex(j.members[1].key) = 0
            THEN DeserializeEventUntagged(j)
            ELSE EndEvent(j, DeserializeVariant(j.members[1].key, j.members[1].val))
      [] OTHER -> Err("syntax", "expected value", j.k)

\* <Event as Deserialize>::deserialize: the enum is externally tagged (no
\* #[serde(tag)] or #[serde(untagged)] attribute), so the document is an
\* object with one member, the variant's name, holding the variant's content.
DeserializeEvent(j) ==
    CASE j.k = "str" ->
            IF EventVariantIndex(j.s) = 0 THEN Err("unknown_variant", j.s, "")
            ELSE Err("invalid_type", Variant(j.s).kind \o " variant", "unit variant")
      [] j.k = "obj" ->
            IF Len(j.members) = 0 THEN Err("syntax", "expected value", "obj")
            ELSE IF EventVariantIndex(j.members[1].key) = 0
            THEN Err("unknown_variant", j.members[1].key, "")
            ELSE EndEvent(j, DeserializeVariant(j.members[1].key, j.members[1].val))
      [] OTHER -> Err("syntax", "expected value", j.k)

\* ------------------------------------------------------------------------
\* Serialization (#[derive(Serialize)]): a struct is an object of its fields
\* in declaration order under their wire names, None is null, a unit variant
\* is its wire name, an Event is {"<variant>": <content>}.
\* ------------------------------------------------------------------------

\* The keys an opaque object of the inputs may use, in the order of a
\* BTreeMap<String, Value> (byte order).
SortedKeys == << "a", "b", "created" >>

RECURSIVE FromValue(_)
FromValue(v) ==
    CASE v.k = "arr" -> JArr([i \in 1..Len(v.items) |-> FromValue(v.items[i])])
      [] v.k = "obj" ->
            LET keys == SelectSeq(SortedKeys, LAMBDA key : key \in DOMAIN v.map)
            IN  JObj([i \in 1..Len(keys) |-> M(keys[i], FromValue(v.map[keys[i]]))])
      [] OTHER -> v

\* SerializeEnum as it would be without #[serde(rename_all)]: the variant's
\* Rust name.
SerializeEnumRustName(variants, v) == JStr(v)

SerializeEnum(variants, v) ==
    JStr(variants[CHOOSE i \in 1..Len(variants) : variants[i].name = v].wire)

RECURSIVE Serialize(_, _)
\* SerializeFields as it would be without #[serde(rename = "...")]: every
\* member under the field's Rust name.
SerializeFieldsRustName(fields, v) ==
    JObj([i \in 1..Len(fields) |->
            M(fields[i].name, Serialize(fields[i].ty, v[fields[i].name]))])

\* SerializeFields as it would be under #[serde(skip_serializing_if =
\* "Option::is_none")]: a field that is None is left out.
SerializeFieldsSkipNone(fields, v) ==
    JObj(SelectSeq([i \in 1..Len(fields) |->
                        M(fields[i].wire, Serialize(fields[i].ty, v[fields[i].name]))],
                   LAMBDA m : m.val # JNull))

SerializeFields(fields, v) ==
    JObj([i \in 1..Len(fields) |->
            M(fields[i].wire, Serialize(fields[i].ty, v[fields[i].name]))])

Serialize(t, v) ==
    CASE t.c = "String" -> JStr(v)
      [] t.c \in {"i64", "isize"} -> JNum(v)
      [] t.c = "bool" -> JBool(v)
      [] t.c = "Value" -> FromValue(v)
      [] t.c = "Option" -> IF v.some THEN Serialize(t.of, v.v) ELSE JNull
      [] t.c = "Vec" -> JArr([i \in 1..Len(v) |-> Serialize(t.of, v[i])])
      [] t.c = "Struct" -> SerializeFields(StructFields(t.n), v)
      [] t.c = "Enum" -> SerializeEnum(EnumVariants(t.n), v)

SerializeContent(var, v) ==
    IF var.kind = "newtype" THEN Serialize(var.inner, v) ELSE SerializeFields(var.fields, v)

\* SerializeEvent as it would be under #[serde(untagged)]: the variant's
\* content alone, no name around it.
SerializeEventUntagged(e) == SerializeContent(Variant(e.variant), e.fields)

SerializeEvent(e) ==
    JObj(<< M(e.variant, SerializeContent(Variant(e.variant), e.fields)) >>)

\* serde_json::from_str::<T> and serde_json::to_string for T = Event or one
\* of the action enumerations.
from_str(ty, j) ==
    IF ty = "Event" THEN DeserializeEvent(j) ELSE DeserializeEnum(EnumVariants(ty), j)

to_string(ty, v) ==
    IF ty = "Event" THEN SerializeEvent(v) ELSE SerializeEnum(EnumVariants(ty), v)

\* ------------------------------------------------------------------------
\* Input documents.  Sample(t) is a minimal valid JSON value for type t; an
\* input is a sample event with one edit applied.
\* ------------------------------------------------------------------------
MaxInt == 2

RECURSIVE Sample(_)
SampleRecord(fs) == JObj([i \in 1..Len(fs) |-> M(fs[i].wire, Sample(fs[i].ty))])

Sample(t) ==
    CASE t.c = "String" -> JStr("s")
      [] t.c \in {"i64", "isize"} -> JNum(1)
      [] t.c = "bool" -> JBool(TRUE)
      [] t.c = "Value" -> JNull
      [] t.c = "Option" -> Sample(t.of)
      [] t.c = "Vec" -> JArr(<< Sample(t.of) >>)
      [] t.c = "Struct" -> SampleRecord(StructFields(t.n))
      [] t.c = "Enum" -> JStr(EnumVariants(t.n)[1].wire)

\* The type of a variant's content as a list of fields.
FieldsOf(var) == IF var.kind = "newtype" THEN StructFields(var.inner.n) ELSE var.fields

ContentFields(name) == FieldsOf(Variant(name))

SamplePayloads ==
    [name \in {VariantNames[i] : i \in 1..Len(VariantNames)} |->
        SampleRecord(ContentFields(name))]

SamplePayload(name) == SamplePayloads[name]

SampleEvent(name) == JObj(<< M(name, SamplePayload(name)) >>)

\* Paths: sequences of steps, a step being an object key or, in an array,
\* the element's index written "0", "1".
ArrayStep == << "0", "1" >>
StepIndex(s) == CHOOSE i \in 1..Len(ArrayStep) : ArrayStep[i] = s

RECURSIVE AllPaths(_)
AllPaths(j) ==
    CASE j.k = "obj" ->
            UNION {{<< j.members[i].key >>} \cup
                   {<< j.members[i].key >> \o q : q \in AllPaths(j.members[i].val)} : i \in 1..Len(j.members)}
      [] j.k = "arr" ->
            UNION {{<< ArrayStep[i] >>} \cup
                   {<< ArrayStep[i] >> \o q : q \in AllPaths(j.items[i])} : i \in 1..Len(j.items)}
      [] OTHER -> {}

Child(j, s) ==
    IF j.k = "obj" THEN j.members[CHOOSE i \in 1..Len(j.members) : j.members[i].key = s].val
    ELSE j.items[StepIndex(s)]

RECURSIVE Get(_, _)
Get(j, p) == IF p = << >> THEN j ELSE Get(Child(j, Head(p)), Tail(p))

RECURSIVE Put(_, _, _)
Put(j, p, new) ==
    IF p = << >> THEN new
    ELSE IF j.k = "obj"
    THEN JObj([i \in 1..Len(j.members) |->
                IF j.members[i].key = Head(p)
                THEN M(j.members[i].key, Put(j.members[i].val, Tail(p), new)) ELSE j.members[i]])
    ELSE JArr([i \in 1..Len(j.items) |->
                IF i = StepIndex(Head(p)) THEN Put(j.items[i], Tail(p), new) ELSE j.items[i]])

Parent(p) == SubSeq(p, 1, Len(p) - 1)
Last(p) == p[Len(p)]

\* The object o without its member key / with its member key repeated at
\* the end / with one more member / as the array of its members' values.
Without(o, key) == JObj(SelectSeq(o.members, LAMBDA m : m.key # key))
Repeated(o, key) == JObj(Append(o.members, M(key, Get(o, << key >>))))
With(o, key, val) == JObj(Append(o.members, M(key, val)))
Renamed(o, key, new) ==
    JObj([i \in 1..Len(o.members) |->
            IF o.members[i].key = key THEN M(new, o.members[i].val) ELSE o.members[i]])
AsArray(o) == JArr([i \in 1..Len(o.members) |-> o.members[i].val])

\* The declared type at path p below a record with these fields (Option is
\* looked through; an array step enters the element type of a Vec).
RECURSIVE TypeAt(_, _)
TypeAt(fields, p) ==
    LET raw == fields[CHOOSE i \in 1..Len(fields) : fields[i].wire = Head(p)].ty
        t == IF raw.c = "Option" THEN raw.of ELSE raw
        RECURSIVE Into(_, _)
        Into(ty, q) ==
            IF q = << >> THEN ty
            ELSE IF ty.c = "Vec" THEN Into(ty.of, Tail(q))
            ELSE TypeAt(StructFields(ty.n), q)
    IN  IF Len(p) = 1 THEN raw ELSE Into(t, Tail(p))

MaxExtra == 2

ExtraKey(i) == "extra_" \o ToString(i)

\* An opaque object with members out of key order and a repeated key.
OpaqueObject ==
    JObj(<< M("b", JNum(1)), M("a", JArr(<< JStr("x"), JNull >>)), M("b", JNum(2)) >>)

\* One value of every JSON kind: two objects, and integers up to MaxInt,
\* around i64::MAX and around u64::MAX.
Values ==
    {JNull, JBool(FALSE), JFloat(1), JStr("x"), JArr(<< JStr("x") >>), JObj(<< >>),
     OpaqueObject, JObj(<< M("created", JNull) >>)}
        \cup {JNum(n) : n \in {0, MaxInt, I64_MAX + 1, U64_MAX, U64_MAX + 1, U64_MAX + 2}}
        \cup {JNum(n) : n \in {0 - 1, I64_MIN, I64_MIN - 1, I64_MAX}}

\* The variants whose samples are edited at every depth with every value.
\* The samples of the others are edited at their top-level fields with three
\* values, and along the paths of Chains with every value.
DeepVariants == {"CheckSuiteEvent", "DeleteEvent", "InstallationEvent"}

FewValues == {JNull, JStr("x"), OpaqueObject}

Prefixes(p) == {SubSeq(p, 1, n) : n \in 1..Len(p)}

Chains(name) ==
    CASE name = "CheckRunEvent" ->
            Prefixes(<< "check_run", "app", "owner", "id" >>)
                \cup {<< "check_run", "conclusion" >>}
                \cup Prefixes(<< "check_run", "check_suite", "conclusion" >>)
      [] name = "CreateEvent" ->
            {<< "description" >>} \cup Prefixes(<< "repository", "description" >>)
      [] name = "IssueCommentEvent" ->
            {<< "changes" >>} \cup Prefixes(<< "issue", "assignee" >>)
      [] name = "PageBuildEvent" -> Prefixes(<< "repository", "id" >>)
      [] name = "PullRequestEvent" -> Prefixes(<< "pull_request", "_links", "self" >>)
      [] OTHER -> {}

ValuesAt(name, p) ==
    IF name \in DeepVariants \/ p \in Chains(name) THEN Values ELSE FewValues

\* A text that is not JSON from its first character on: no value starts it.
NotJson == [k |-> "malformed"]

\* The keys that are reserved words of Rust: their fields are declared as
\* ref_field, type_field, self_field with #[serde(rename)].
ReservedKeys == {"ref", "type", "self"}

\* The names a sample is wrapped in instead of its own.
OtherNames ==
    {"PublicEvent", "WatchEvent", "RepositoryEvent", "CheckSuiteEvent", "push", "check_run"}

ActionStrings ==
    {"created", "rerequested", "requested_action", "completed", "revoked", "deleted",
     "edited", "added", "removed", "added_to_repository", "removed_from_repository",
     "Created", "requestedAction", "RequestedAction", "requested", "bogus", ""}

\* Whether the variant's action field is typed by an action enumeration.
HasEnumActionIn(fields) ==
    \E i \in 1..Len(fields) : fields[i].wire = "action" /\ fields[i].ty.c = "Enum"

HasEnumAction(name) == HasEnumActionIn(ContentFields(name))

\* Whether the variant has an action field, of either type.
HasActionIn(fields) == \E i \in 1..Len(fields) : fields[i].wire = "action"

TopPaths(fields) == {<< fields[i].wire >> : i \in 1..Len(fields)}

EditPaths(name) ==
    IF name \in DeepVariants THEN AllPaths(SamplePayload(name))
    ELSE TopPaths(ContentFields(name)) \cup Chains(name)

Input(ty, variant, edit, path, n, val) ==
    [ty |-> ty, variant |-> variant, edit |-> edit, path |-> path, n |-> n, val |-> val]

EditsOf(name, pay, paths, action) ==
    LET keyPaths == {p \in paths : Get(pay, Parent(p)).k = "obj"}
        objPaths == {<< >>} \cup {p \in paths : Get(pay, p).k = "obj"}
    IN  {Input("Event", name, e, << >>, 0, JNull) :
            e \in {"none", "bare", "name", "second", "malformed"}}
        \cup {Input("Event", name, "rewrap", << >>, 0, JStr(s)) : s \in OtherNames \ {name}}
        \cup {Input("Event", name, e, p, 0, JNull) : e \in {"delete", "repeat"}, p \in keyPaths}
        \cup UNION {{Input("Event", name, "set", p, 0, v) : v \in ValuesAt(name, p)} :
                        p \in paths}
        \cup {Input("Event", name, "set", << "action" >>, 0, JStr(s)) :
                s \in IF action THEN ActionStrings ELSE {}}
        \cup {Input("Event", name, "add", p, n, v) :
                p \in objPaths, n \in 1..MaxExtra, v \in {JNull, JStr("x")}}
        \cup {Input("Event", name, "array", p, 0, JNull) : p \in objPaths}
        \cup {Input("Event", name, "rustname", p, 0, JNull) :
                p \in {q \in keyPaths : Last(q) \in ReservedKeys}}
        \cup {Input("Event", name, "invited", << "membership" >>, 0, OpaqueObject) :
                n \in IF name = "OrganizationEvent" THEN {0} ELSE {}}

EventInputs(name) ==
    EditsOf(name, SamplePayload(name), EditPaths(name), HasActionIn(ContentFields(name)))

EnumInputs(name) ==
    {Input(name, name, "parse", << >>, 0, JStr(s)) : s \in ActionStrings}
        \cup {Input(name, name, "parse", << >>, 0, v) :
                v \in {JNull, JNum(1), JObj(<< M("created", JNull) >>), NotJson}}

Inputs ==
    UNION {EventInputs(VariantNames[i]) : i \in 1..Len(VariantNames)}
        \cup UNION {EnumInputs(EnumNames[i]) : i \in 1..Len(EnumNames)}

RECURSIVE AddExtra(_, _)
AddExtra(o, n) == IF n = 0 THEN o ELSE With(AddExtra(o, n - 1), ExtraKey(n), JNull)

\* The document an input describes.
Edit(inp, pay) ==
    LET wrap(p) == JObj(<< M(inp.variant, p) >>)
        e == inp.edit
    IN  CASE e = "parse" -> inp.val
          [] e = "none" -> wrap(pay)
          [] e = "bare" -> pay
          [] e = "name" -> JStr(inp.variant)
          [] e = "malformed" -> NotJson
          [] e = "second" -> JObj(<< M(inp.variant, pay), M("sender", JNull) >>)
          [] e = "rewrap" ->
                JObj(<< M(inp.val.s, pay) >>)
          [] e = "delete" ->
                wrap(Put(pay, Parent(inp.path),
                         Without(Get(pay, Parent(inp.path)), Last(inp.path))))
          [] e = "repeat" ->
                wrap(Put(pay, Parent(inp.path),
                         Repeated(Get(pay, Parent(inp.path)), Last(inp.path))))
          [] e = "set" -> wrap(Put(pay, inp.path, inp.val))
          [] e = "rustname" ->
                wrap(Put(pay, Parent(inp.path),
                         Renamed(Get(pay, Parent(inp.path)), Last(inp.path),
                                 Last(inp.path) \o "_field")))
          [] e = "invited" ->
                wrap(Without(Put(Put(pay, << "action" >>, JStr("member_invited")),
                                 << "invitation" >>, inp.val),
                             Last(inp.path)))
          [] e = "add" ->
                wrap(Put(pay, inp.path,
                         With(AddExtra(Get(pay, inp.path), inp.n - 1),
                              ExtraKey(inp.n), inp.val)))
          [] e = "array" -> wrap(Put(pay, inp.path, AsArray(Get(pay, inp.path))))

Document(inp) == Edit(inp, SamplePayload(inp.variant))

\* ------------------------------------------------------------------------
\* The state machine: one call of from_str on a document, then one call of
\* to_string on the value it returned.
\* ------------------------------------------------------------------------
VARIABLES pc, inp, doc, result, encoded

vars == << pc, inp, doc, result, encoded >>

NoResult == [ok |-> FALSE, code |-> "none", what |-> "", found |-> ""]

Init ==
    /\ pc = "input"
    /\ inp \in Inputs
    /\ doc = Document(inp)
    /\ result = NoResult
    /\ encoded = JNull

Decode ==
    /\ pc = "input"
    /\ result' = from_str(inp.ty, doc)
    /\ pc' = "decoded"
    /\ UNCHANGED << inp, doc, encoded >>

Encode ==
    /\ pc = "decoded"
    /\ result.ok
    /\ encoded' = to_string(inp.ty, result.v)
    /\ pc' = "encoded"
    /\ UNCHANGED << inp, doc, result >>

Next == Decode \/ Encode

Spec == Init /\ [][Next]_vars

\* ------------------------------------------------------------------------
\* Properties.
\* ------------------------------------------------------------------------

\* from_str has returned, for an Event document.
Decoded == pc # "input" /\ inp.ty = "Event"

\* The keys of an object's members.
Keys(o) == {o.members[i].key : i \in 1..Len(o.members)}

\* The wire names of a variant's fields that are not Option.
RequiredKeys(name) ==
    {ContentFields(name)[i].wire :
        i \in {n \in 1..Len(ContentFields(name)) : ContentFields(name)[n].ty.c # "Option"}}

NumVal(j) == IF j.k = "num" THEN j.n ELSE j.f

IsNumber(j) == j.k \in {"num", "float"}

\* The value of the last member of object o with this key.
LastVal(o, key) ==
    o.members[CHOOSE i \in 1..Len(o.members) :
                /\ o.members[i].key = key
                /\ \A n \in (i + 1)..Len(o.members) : o.members[n].key # key].val

\* Semantic equality of two JSON values: the same kind, the same scalar, the
\* same elements in order, the same members whatever their order.
RECURSIVE SemEq(_, _)
SemEq(a, b) ==
    IF IsNumber(a) \/ IsNumber(b) THEN IsNumber(a) /\ IsNumber(b) /\ NumVal(a) = NumVal(b)
    ELSE /\ a.k = b.k
         /\ CASE a.k = "arr" ->
                    /\ Len(a.items) = Len(b.items)
                    /\ \A i \in 1..Len(a.items) : SemEq(a.items[i], b.items[i])
              [] a.k = "obj" ->
                    /\ \A i \in 1..Len(a.members) : \E n \in 1..Len(b.members) :
                            /\ a.members[i].key = b.members[n].key
                            /\ SemEq(a.members[i].val, b.members[n].val)
                    /\ \A n \in 1..Len(b.members) : \E i \in 1..Len(a.members) :
                            /\ a.members[i].key = b.members[n].key
                            /\ SemEq(a.members[i].val, b.members[n].val)
              [] OTHER -> a = b

\* Kept(a, b): b is the JSON value a up to what 64-bit numbers and a map can
\* hold: an integer literal outside i64::MIN..u64::MAX, or a literal with a
\* fraction or an exponent, is the nearest f64; of the members of an object
\* that repeat a key the last one stays.
RECURSIVE Kept(_, _)
Kept(a, b) ==
    IF IsNumber(a) \/ IsNumber(b)
    THEN /\ IsNumber(a) /\ IsNumber(b)
         /\ NumVal(b) = IF a.k = "num" /\ a.n >= I64_MIN /\ a.n <= U64_MAX
                        THEN a.n ELSE ToF64(NumVal(a))
    ELSE /\ a.k = b.k
         /\ CASE a.k = "arr" ->
                    /\ Len(a.items) = Len(b.items)
                    /\ \A i \in 1..Len(a.items) : Kept(a.items[i], b.items[i])
              [] a.k = "obj" ->
                    /\ Keys(a) = Keys(b)
                    /\ Cardinality(Keys(b)) = Len(b.members)
                    /\ \A key \in Keys(a) : Kept(LastVal(a, key), LastVal(b, key))
              [] OTHER -> a = b

\* Reflects(t, j, v, lax): the Rust value v of type t holds exactly what the
\* JSON value j says.  A record is an object, each declared field holding
\* the value under its wire name, an absent optional field holding None; an
\* action is its wire string.  With lax, a record may also be the array of
\* its fields' values in declaration order, an action may also be the object
\* {"<wire string>": null}, and an opaque value is held as Kept says.
RECURSIVE Reflects(_, _, _, _)
RecordReflects(fields, j, v, lax) ==
    \/ /\ j.k = "obj"
       /\ \A i \in 1..Len(fields) :
            IF fields[i].wire \in Keys(j)
            THEN Reflects(fields[i].ty, Child(j, fields[i].wire), v[fields[i].name], lax)
            ELSE fields[i].ty.c = "Option" /\ v[fields[i].name] = None
    \/ /\ lax /\ j.k = "arr" /\ Len(j.items) = Len(fields)
       /\ \A i \in 1..Len(fields) : Reflects(fields[i].ty, j.items[i], v[fields[i].name], lax)

Reflects(t, j, v, lax) ==
    CASE t.c = "String" -> j.k = "str" /\ v = j.s
      [] t.c \in {"i64", "isize"} -> j.k = "num" /\ v = j.n
      [] t.c = "bool" -> j.k = "bool" /\ v = j.b
      [] t.c = "Value" -> IF lax THEN Kept(j, FromValue(v)) ELSE SemEq(j, FromValue(v))
      [] t.c = "Option" ->
            IF j.k = "null" THEN v = None ELSE v.some /\ Reflects(t.of, j, v.v, lax)
      [] t.c = "Vec" ->
            /\ j.k = "arr" /\ Len(v) = Len(j.items)
            /\ \A i \in 1..Len(v) : Reflects(t.of, j.items[i], v[i], lax)
      [] t.c = "Struct" -> RecordReflects(StructFields(t.n), j, v, lax)
      [] t.c = "Enum" ->
            LET named(s) == \E i \in 1..Len(EnumVariants(t.n)) :
                                /\ EnumVariants(t.n)[i].wire = s
                                /\ EnumVariants(t.n)[i].name = v
            IN  \/ j.k = "str" /\ named(j.s)
                \/ /\ lax /\ j.k = "obj" /\ Len(j.members) = 1
                   /\ j.members[1].val.k = "null" /\ named(j.members[1].key)

EventReflects(lax) ==
    /\ doc.k = "obj" /\ Len(doc.members) = 1
    /\ RecordReflects(ContentFields(result.v.variant), doc.members[1].val,
                      result.v.fields, lax)

ErrorPath(r) ==
    IF r.code \in {"missing_field", "duplicate_field"} THEN << r.what >> ELSE << >>

\* The declared type of the field an input edits, and that type with Option
\* looked through.
DeclaredType == TypeAt(ContentFields(inp.variant), inp.path)
InnerType == IF DeclaredType.c = "Option" THEN DeclaredType.of ELSE DeclaredType

\* The input edits a field that is declared and not optional.
AtRequiredField == inp.path # << >> /\ DeclaredType.c # "Option"

KindOf(t) ==
    CASE t.c = "String" -> "str"
      [] t.c \in {"i64", "isize"} -> "num"
      [] t.c = "bool" -> "bool"
      [] t.c = "Vec" -> "arr"
      [] t.c = "Struct" -> "obj"
      [] t.c = "Enum" -> "str"
      [] OTHER -> "any"

Expected(t) ==
    CASE t.c = "String" -> "a string"
      [] t.c = "bool" -> "a boolean"
      [] t.c = "Vec" -> "a sequence"
      [] t.c = "Struct" -> "struct"
      [] OTHER -> t.c

\* The JSON value j is of another kind than the type declared (null being
\* the kind of an absent optional value).
Mistyped(t, j) ==
    LET u == IF t.c = "Option" THEN t.of ELSE t
    IN  /\ u.c # "Value"
        /\ ~(t.c = "Option" /\ j.k = "null")
        /\ j.k # KindOf(u)

\* A record written as an array, or an action written as an object: the
\* forms serde accepts beside the object and the string.
OtherForm(t, j) ==
    LET u == IF t.c = "Option" THEN t.of ELSE t
    IN  (u.c = "Struct" /\ j.k = "arr") \/ (u.c = "Enum" /\ j.k = "obj")

SampleResult == from_str("Event", SampleEvent(inp.variant))

\* The value the document has at the edited path.
Edited == Get(doc, << inp.variant >> \o inp.path)

\* C5 as stated: undeclared keys added anywhere leave the result what it
\* was; a required key removed, or given a value of another kind, fails.
C5_UnknownIgnoredMistypedFails ==
    Decoded =>
        /\ inp.edit = "add" => result.ok /\ result = SampleResult
        /\ inp.edit = "delete" /\ AtRequiredField => ~result.ok
        /\ inp.edit \in {"set", "array"} /\ AtRequiredField
                /\ Mistyped(DeclaredType, Edited) => ~result.ok

\* C5 as amended: the same, a record written as the array of its fields'
\* values in declaration order not counting as mistyped: it decodes to the
\* same value as the object (nor does an action written as an object count).
C5_UnknownIgnoredOtherKindFails ==
    Decoded =>
        /\ inp.edit = "add" => result.ok /\ result = SampleResult
        /\ inp.edit = "delete" /\ AtRequiredField => ~result.ok
        /\ inp.edit = "set" /\ AtRequiredField /\ Mistyped(DeclaredType, Edited)
                /\ ~OtherForm(DeclaredType, Edited) => ~result.ok
        /\ inp.edit = "array" => result.ok /\ result = SampleResult

\* C5 witness: MaxExtra undeclared keys added inside a nested record of an
\* InstallationEvent, decoded to what the sample decodes to.
C5_Witness ==
    /\ Decoded /\ inp.variant = "InstallationEvent" /\ inp.edit = "add"
    /\ inp.n = MaxExtra /\ inp.path = << "installation", "account" >>
    /\ Len(Edited.members) > Len(Get(SampleEvent(inp.variant), << inp.variant >> \o inp.path).members)
    /\ result.ok /\ result = SampleResult

\* The documented value set of each action enumeration.
Documented(enum) ==
    CASE enum = "Check" -> {"created", "rerequested", "requested_action", "completed"}
      [] enum = "Created" -> {"created"}
      [] enum = "Revoked" -> {"revoked"}
      [] enum = "CreatedDeleted" -> {"created", "deleted"}
      [] enum = "CrEdDel" -> {"created", "edited", "deleted"}
      [] enum = "AddedRemoved" -> {"added", "removed"}
      [] enum = "TeamEvent" ->
            {"created", "deleted", "edited", "added_to_repository", "removed_from_repository"}

\* from_str has returned, for a string given to an action enumeration.
Parsed == pc # "input" /\ inp.edit = "parse" /\ doc.k = "str"

\* C6: the strings an action enumeration parses are exactly its documented
\* set, matched exactly and case-sensitively; every other string is refused.
C6_DocumentedSetsExactly ==
    Parsed => (result.ok <=> doc.s \in Documented(inp.ty))

\* C6 witness: Check has parsed requested_action.
C6_Witness ==
    /\ Parsed /\ inp.ty = "Check" /\ doc = JStr("requested_action")
    /\ result.ok /\ result.v = "RequestedAction"

\* C7: for every action enumeration parse and render are inverses over the
\* documented set: a documented string parsed and rendered is that string,
\* a value rendered and parsed is that value, and distinct values render to
\* distinct strings.
C7_ParseRenderInverse ==
    pc = "encoded" /\ Parsed =>
        LET vs == EnumVariants(inp.ty)
        IN  /\ encoded = doc
            /\ from_str(inp.ty, encoded) = result
            /\ \A i \in 1..Len(vs) :
                    from_str(inp.ty, to_string(inp.ty, vs[i].name)) = Ok(vs[i].name)
            /\ \A i, n \in 1..Len(vs) :
                    to_string(inp.ty, vs[i].name) = to_string(inp.ty, vs[n].name) => i = n

\* C7 witness: Check has parsed requested_action and rendered the value.
C7_Witness ==
    /\ pc = "encoded" /\ Parsed /\ inp.ty = "Check"
    /\ result = Ok("RequestedAction") /\ encoded = JStr("requested_action")

\* The events whose action field is typed by an action enumeration.
EnumActionEvents ==
    {"CheckRunEvent", "CheckSuiteEvent", "CommitCommentEvent",
     "GitHubAppAuthorizationEvent", "InstallationEvent",
     "InstallationRepositoriesEvent", "IssueCommentEvent", "LabelEvent", "TeamEvent"}

\* The input gives an enumeration-typed action a string outside its set.
ActionOutsideSet ==
    /\ Decoded /\ inp.edit = "set" /\ inp.path = << "action" >>
    /\ HasEnumAction(inp.variant) /\ inp.val.k = "str"
    /\ inp.val.s \notin Documented(DeclaredType.n)

AtOpaqueField == inp.edit = "set" /\ InnerType.c = "Value"

\* The record v, of these fields, with the value at path p blanked.
RECURSIVE BlankIn(_, _, _)
BlankRecord(fields, v, p) ==
    LET f == fields[CHOOSE i \in 1..Len(fields) : fields[i].wire = Head(p)]
    IN  [v EXCEPT ![f.name] = BlankIn(f.ty, @, Tail(p))]

BlankIn(t, v, p) ==
    IF p = << >> THEN "-"
    ELSE CASE t.c = "Option" -> Some(BlankIn(t.of, v.v, p))
           [] t.c = "Vec" ->
                [v EXCEPT ![StepIndex(Head(p))] = BlankIn(t.of, @, Tail(p))]
           [] t.c = "Struct" -> BlankRecord(StructFields(t.n), v, p)

\* C9: an opaque field decodes whatever the JSON kind of its value; the
\* result is of the same variant as the result for the sample (where the
\* field is null) and differs from it in that field and nowhere else.
C9_OpaqueAnyKind ==
    Decoded /\ AtOpaqueField =>
        /\ result.ok /\ result.v.variant = inp.variant
        /\ BlankRecord(ContentFields(inp.variant), result.v.fields, inp.path)
                = BlankRecord(ContentFields(inp.variant), SampleResult.v.fields, inp.path)
        /\ inp.val.k # "null" => result # SampleResult

\* C9 witness: a CreateEvent whose description is "x" has decoded, to
\* another value than the sample, whose description is null.
C9_Witness ==
    /\ Decoded /\ AtOpaqueField /\ inp.variant = "CreateEvent"
    /\ inp.path = << "description" >> /\ inp.val = JStr("x")
    /\ result.ok /\ result.v.fields["description"] = JStr("x")
    /\ SampleResult.v.fields["description"] = JNull

RECURSIVE Opaque(_)
Opaque(t) ==
    CASE t.c = "Value" -> TRUE
      [] t.c \in {"Option", "Vec"} -> Opaque(t.of)
      [] t.c = "Struct" ->
            \E i \in 1..Len(StructFields(t.n)) : Opaque(StructFields(t.n)[i].ty)
      [] OTHER -> FALSE

\* The variants all of whose fields are concrete.
Concrete(name) ==
    \A i \in 1..Len(ContentFields(name)) : ~Opaque(ContentFields(name)[i].ty)

\* C11: an Event of a variant without opaque fields, once decoded and
\* encoded, decodes again, to an Event equal to the first field for field
\* (whatever form the first document gave its records and actions in).
C11_RoundTrip ==
    pc = "encoded" /\ inp.ty = "Event" /\ Concrete(inp.variant) =>
        /\ from_str("Event", encoded).ok
        /\ from_str("Event", encoded) = result
        /\ from_str("Event", encoded).v.variant = inp.variant

\* C11 witness: a DeleteEvent given as the array of its three strings has
\* been encoded, as an object whose first key is the renamed field ref.
C11_Witness ==
    /\ pc = "encoded" /\ inp.ty = "Event" /\ Concrete(inp.variant)
    /\ inp.variant = "DeleteEvent" /\ inp.edit = "array" /\ inp.path = << >>
    /\ encoded # doc
    /\ Get(encoded, << "DeleteEvent" >>).members[1].key = "ref"
    /\ result.v.fields.ref_field = "s"


\* ---- C12 ----
\* The documents that name their event: {"<name>": raw}, the sample payload
\* of inp.variant under its own name or under another.
Hinted == Decoded /\ inp.edit \in {"none", "rewrap"}

HintName == doc.members[1].key

HintRaw == doc.members[1].val

IsVariantName(s) == \E i \in 1..Len(VariantNames) : VariantNames[i] = s

\* The variants whose required keys are all among the payload's keys.
Shapes(raw) ==
    {n \in {VariantNames[i] : i \in 1..Len(VariantNames)} : RequiredKeys(n) \subseteq Keys(raw)}

DocumentedEvents ==
    {"CheckRunEvent", "CheckSuiteEvent", "CommitCommentEvent", "CreateEvent", "DeleteEvent",
     "DeploymentEvent", "DeploymentStatusEvent", "ForkEvent", "GitHubAppAuthorizationEvent",
     "GollumEvent", "InstallationEvent", "InstallationRepositoriesEvent", "IssueCommentEvent",
     "IssueEvent", "LabelEvent", "MemberEvent", "MembershipEvent", "MilestoneEvent",
     "OrganizationEvent", "OrgBlockEvent", "PageBuildEvent", "ProjectCardEvent",
     "ProjectColumnEvent", "ProjectEvent", "PublicEvent", "PullRequestEvent",
     "PullRequestReviewEvent", "PullRequestReviewCommentEvent", "PushEvent", "ReleaseEvent",
     "RepositoryEvent", "RepositoryImportEvent", "RepositoryVulnerabilityAlertEvent",
     "SecurityAdvisoryEvent", "StatusEvent", "TeamEvent", "TeamAddEvent", "WatchEvent"}

\* Whether the decoded value v is a value of the declared type t, every
\* field of every record in it present.
RECURSIVE WellTyped(_, _)
WellTypedRecord(fields, v) ==
    /\ DOMAIN v = {fields[i].name : i \in 1..Len(fields)}
    /\ \A i \in 1..Len(fields) : WellTyped(fields[i].ty, v[fields[i].name])

WellTyped(t, v) ==
    CASE t.c = "String" -> v \in STRING
      [] t.c \in {"i64", "isize"} -> v \in I64_MIN..I64_MAX
      [] t.c = "bool" -> v \in BOOLEAN
      [] t.c = "Value" -> TRUE
      [] t.c = "Option" -> v = None \/ (v.some /\ WellTyped(t.of, v.v))
      [] t.c = "Vec" -> \A i \in 1..Len(v) : WellTyped(t.of, v[i])
      [] t.c = "Struct" -> WellTypedRecord(StructFields(t.n), v)
      [] t.c = "Enum" ->
            \E i \in 1..Len(EnumVariants(t.n)) : EnumVariants(t.n)[i].name = v

Ambiguous(j) == j.k = "obj" /\ Cardinality(Shapes(j)) > 1

Returned == pc # "input"

\* The document names an event that is not a variant.
UnknownName == inp.ty = "Event" /\ inp.edit = "rewrap" /\ ~IsVariantName(inp.val.s)

C17_CheckSuiteActionsDecode ==
    /\ Decoded /\ inp.variant = "CheckSuiteEvent"
    /\ inp.edit = "set" /\ inp.path = << "action" >>
    /\ inp.val \in {JStr("completed"), JStr("requested"), JStr("rerequested")}
    => result.ok /\ result.v.variant = "CheckSuiteEvent"

\* ---- C18 ----
\* The input sets the conclusion of a check suite, the event's own or the
\* one inside a check run, and the conclusion of a check run.
AtSuiteConclusion ==
    /\ inp.edit = "set"
    /\ \/ inp.variant = "CheckSuiteEvent" /\ inp.path = << "check_suite", "conclusion" >>
       \/ /\ inp.variant = "CheckRunEvent"
          /\ inp.path = << "check_run", "check_suite", "conclusion" >>

AtRunConclusion ==
    /\ inp.edit = "set" /\ inp.variant = "CheckRunEvent"
    /\ inp.path = << "check_run", "conclusion" >>

\* C18: an event whose check suite has a null conclusion decodes, as one
\* whose check run has a null conclusion does.
C18_NullConclusionDecodes ==
    Decoded /\ inp.val = JNull /\ (AtSuiteConclusion \/ AtRunConclusion) =>
        result.ok /\ result.v.variant = inp.variant

\* ---- C19 ----
\* C19: a CreateEvent whose ref is null decodes, to a CreateEvent.
C19_NullRefDecodes ==
    /\ Decoded /\ inp.variant = "CreateEvent"
    /\ inp.edit = "set" /\ inp.path = << "ref" >> /\ inp.val = JNull
    => result.ok /\ result.v.variant = "CreateEvent"

\* ---- C20 ----
\* C20: an OrganizationEvent with action member_invited, an invitation and
\* no membership key decodes, to an OrganizationEvent.
C20_InvitedWithoutMembershipDecodes ==
    /\ Decoded /\ inp.variant = "OrganizationEvent" /\ inp.edit = "invited"
    /\ "membership" \notin Keys(doc.members[1].val)
    /\ Child(doc.members[1].val, "action") = JStr("member_invited")
    /\ Child(doc.members[1].val, "invitation") = OpaqueObject
    => result.ok /\ result.v.variant = "OrganizationEvent"


\* ---- C21 ----
\* C21: a TeamAddEvent document without the team key (older deliveries),
\* with repository, organization and sender, decodes, to a TeamAddEvent.
C21_TeamAddWithoutTeamDecodes ==
    /\ Decoded /\ inp.variant = "TeamAddEvent"
    /\ inp.edit = "delete" /\ inp.path = << "team" >>
    /\ Keys(doc.members[1].val) = {"repository", "organization", "sender"}
    => result.ok /\ result.v.variant = "TeamAddEvent"

\* ---- C22 ----
\* The variants that declare a changes field.
DeclaresChanges(name) ==
    \E i \in 1..Len(ContentFields(name)) : ContentFields(name)[i].wire = "changes"

\* C22: the variants that declare changes are the twelve listed, and a
\* document of one of them whose action is not edited and that has no
\* changes key decodes.
C22_NoChangesUnlessEdited ==
    /\ {n \in DocumentedEvents : DeclaresChanges(n)} =
            {"IssueCommentEvent", "IssueEvent", "LabelEvent", "MemberEvent",
             "MilestoneEvent", "ProjectCardEvent", "ProjectColumnEvent", "ProjectEvent",
             "PullRequestEvent", "PullRequestReviewEvent",
             "PullRequestReviewCommentEvent", "TeamEvent"}
    /\ /\ Decoded /\ DeclaresChanges(inp.variant)
       /\ inp.edit = "delete" /\ inp.path = << "changes" >>
       /\ Child(doc.members[1].val, "action") # JStr("edited")
       => result.ok /\ result.v.variant = inp.variant


\* ---- C23 ----
\* The payload of a document that names its event.
Payload_ == doc.members[1].val

\* C23 as stated: no variant's required keys are another's or among
\* another's, and a payload's keys fit the required keys of at most one
\* variant.
C23_SignaturesUnique ==
    /\ \A a, b \in DocumentedEvents : a # b => ~(RequiredKeys(a) \subseteq RequiredKeys(b))
    /\ Decoded /\ doc.k = "obj" /\ Len(doc.members) = 1 /\ Payload_.k = "obj" =>
            Cardinality(Shapes(Payload_)) <= 1

\* C23 as amended: required-key sets repeat and nest (RepositoryEvent's is
\* WatchEvent's, PublicEvent's is inside both), so a payload's keys may fit
\* several variants; a payload that decodes fits the required keys of the
\* variant named around it, which is the variant decoded, and a sample fits
\* every variant whose required keys are among its own.
C23_SignaturesOverlap ==
    /\ RequiredKeys("RepositoryEvent") = RequiredKeys("WatchEvent")
    /\ RequiredKeys("PublicEvent") \subseteq RequiredKeys("WatchEvent")
    /\ RequiredKeys("PublicEvent") # RequiredKeys("WatchEvent")
    /\ Decoded /\ result.ok /\ Payload_.k = "obj" =>
            /\ result.v.variant \in Shapes(Payload_)
            /\ result.v.variant = doc.members[1].key
    /\ Decoded /\ inp.edit = "none" =>
            Shapes(Payload_) =
                {n \in DocumentedEvents : RequiredKeys(n) \subseteq RequiredKeys(inp.variant)}

\* C23 witness: the WatchEvent sample has decoded to a WatchEvent while its
\* keys fit PublicEvent and RepositoryEvent as well.
C23_Witness ==
    /\ Decoded /\ inp.edit = "none" /\ inp.variant = "WatchEvent"
    /\ result.ok /\ result.v.variant = "WatchEvent"
    /\ {"PublicEvent", "RepositoryEvent", "WatchEvent"} \subseteq Shapes(Payload_)
    /\ Cardinality(Shapes(Payload_)) >= 3


\* ---- C24 ----
\* The keys of an object in document order.
KeySeq(o) == [i \in 1..Len(o.members) |-> o.members[i].key]

WireSeq(fields) == [i \in 1..Len(fields) |-> fields[i].wire]

\* C24: an encoded Event is an object with one key, the variant's name,
\* holding the object of the variant's fields under their wire names; a
\* decoded Event has the variant named by the single key of its document;
\* a bare payload, a bare name and a document with a second top-level key
\* are rejected.
C24_WrappedForm ==
    /\ pc = "encoded" /\ inp.ty = "Event" =>
            /\ encoded.k = "obj" /\ Len(encoded.members) = 1
            /\ encoded.members[1].key = result.v.variant
            /\ encoded.members[1].val.k = "obj"
            /\ KeySeq(encoded.members[1].val) = WireSeq(ContentFields(result.v.variant))
    /\ Decoded /\ result.ok =>
            /\ doc.k = "obj" /\ KeySeq(doc) = << result.v.variant >>
    /\ Decoded /\ inp.edit \in {"bare", "name", "second"} => ~result.ok

\* C24 witness: an IssueEvent, the variant that wraps the struct of the
\* same name, has been encoded under the key IssueEvent.
C24_Witness ==
    /\ pc = "encoded" /\ inp.ty = "Event" /\ inp.variant = "IssueEvent"
    /\ KeySeq(encoded) = << "IssueEvent" >>
    /\ "action" \in Keys(encoded.members[1].val)
    /\ result.v.variant = "IssueEvent"


\* ---- C25 ----
\* The input edits a field declared Option.
AtOptionalField ==
    /\ inp.ty = "Event" /\ inp.edit \in {"delete", "set"}
    /\ inp.path # << >> /\ DeclaredType.c = "Option"

\* The key is absent, or present with null.
AbsentOrNull == inp.edit = "delete" \/ (inp.edit = "set" /\ inp.val = JNull)

\* The same document with the key in the other of the two forms.
OtherAbsentForm ==
    IF inp.edit = "delete"
    THEN Edit([inp EXCEPT !.edit = "set", !.val = JNull], SamplePayload(inp.variant))
    ELSE Edit([inp EXCEPT !.edit = "delete"], SamplePayload(inp.variant))

\* The field of a decoded record at a path none of whose steps is renamed.
RECURSIVE FieldAt(_, _)
FieldAt(v, p) == IF p = << >> THEN v ELSE FieldAt(v[Head(p)], Tail(p))

\* The fields declared Option, by variant (or struct) and wire name.
OptionalFields ==
    UNION {{<< n, ContentFields(n)[i].wire >> :
                i \in {k \in 1..Len(ContentFields(n)) : ContentFields(n)[k].ty.c = "Option"}} :
            n \in DocumentedEvents}
      \cup {<< "CheckRun", CheckRun[i].wire >> :
                i \in {k \in 1..Len(CheckRun) : CheckRun[k].ty.c = "Option"}}

\* C25: the optional fields are the listed ones; a document with such a key
\* absent and the same document with the key null decode to the same Event,
\* the field being None; encoding that Event writes the key with null; and
\* a value that is not null and not of the field's kind fails the decode.
C25_AbsentIsNull ==
    /\ OptionalFields =
            {<< n, "changes" >> : n \in {"IssueCommentEvent", "LabelEvent", "MilestoneEvent",
                                         "ProjectCardEvent", "IssueEvent"}}
              \cup {<< "OrganizationEvent", "invitation" >>,
                    << "ProjectCardEvent", "after_id" >>, << "ProjectColumnEvent", "after_id" >>,
                    << "PushEvent", "head" >>, << "StatusEvent", "target_url" >>,
                    << "StatusEvent", "description" >>, << "CheckRun", "conclusion" >>}
    /\ Decoded /\ AtOptionalField /\ AbsentOrNull =>
            /\ result.ok /\ result.v.variant = inp.variant
            /\ FieldAt(result.v.fields, inp.path) = None
            /\ OtherAbsentForm # doc
            /\ from_str("Event", OtherAbsentForm) = result
    /\ pc = "encoded" /\ AtOptionalField /\ AbsentOrNull =>
            /\ Last(inp.path) \in Keys(Get(encoded, << inp.variant >> \o Parent(inp.path)))
            /\ Get(encoded, << inp.variant >> \o inp.path) = JNull
    /\ Decoded /\ AtOptionalField /\ inp.edit = "set" /\ Mistyped(DeclaredType, inp.val)
            /\ ~OtherForm(DeclaredType, inp.val)
            => ~result.ok

\* C25 witness: a StatusEvent without its target_url key has been encoded,
\* with target_url null.
C25_Witness ==
    /\ pc = "encoded" /\ AtOptionalField /\ inp.edit = "delete"
    /\ inp.variant = "StatusEvent" /\ inp.path = << "target_url" >>
    /\ "target_url" \notin Keys(Payload_)
    /\ result.v.fields.target_url = None
    /\ Get(encoded, << "StatusEvent", "target_url" >>) = JNull


\* ---- C26 ----
\* The variants whose action is declared String.
FreeActionEvents ==
    {n \in DocumentedEvents :
        \E i \in 1..Len(ContentFields(n)) :
            ContentFields(n)[i].wire = "action" /\ ContentFields(n)[i].ty = String}

\* C26: the variants with a free-string action are the seventeen listed,
\* and a document of one of them with any string as its action decodes, the
\* action stored as given, and is encoded with that string again.
C26_FreeActionAnyString ==
    /\ FreeActionEvents =
            {"MemberEvent", "MembershipEvent", "MilestoneEvent", "OrganizationEvent",
             "OrgBlockEvent", "ProjectCardEvent", "ProjectColumnEvent", "ProjectEvent",
             "PullRequestEvent", "PullRequestReviewEvent", "PullRequestReviewCommentEvent",
             "ReleaseEvent", "RepositoryEvent", "RepositoryVulnerabilityAlertEvent",
             "SecurityAdvisoryEvent", "WatchEvent", "IssueEvent"}
    /\ /\ Decoded /\ inp.variant \in FreeActionEvents
       /\ inp.edit = "set" /\ inp.path = << "action" >> /\ inp.val.k = "str"
       => /\ result.ok /\ result.v.variant = inp.variant
          /\ result.v.fields.action = inp.val.s
          /\ pc = "encoded" => Get(encoded, << inp.variant, "action" >>) = inp.val

\* C26 witness: a WatchEvent, documented to have the action started only,
\* has decoded with the action bogus.
C26_Witness ==
    /\ Decoded /\ inp.variant = "WatchEvent" /\ inp.variant \in FreeActionEvents
    /\ inp.edit = "set" /\ inp.path = << "action" >> /\ inp.val = JStr("bogus")
    /\ result.ok /\ result.v.fields.action = "bogus"


\* ---- C27 ----
\* The record types declared (struct ...).
DeclaredStructs ==
    {"IssueEvent", "CheckRun", "Output", "CheckSuite", "App", "Owner", "Repository",
     "Organization", "Sender", "Installation", "Author", "User", "Comment",
     "Deployment", "Payload", "Creator", "DeploymentStatus", "Forkee", "Page",
     "Account", "Permissions", "PartialRepository", "RepositoriesRemoved", "Issue",
     "Label", "Member", "MemberEventChanges", "Permission", "Team", "Milestone",
     "Membership", "Build", "Error", "Pusher", "ProjectCard", "ProjectColumn",
     "Project", "PullRequest", "Head", "Base", "Links", "Link", "Review",
     "ReviewLinks", "Commit", "Release", "ReleaseAuthor", "Alert",
     "SecurityAdvisory", "Identifier", "Reference", "Vulnerability", "Package",
     "FirstPatchedVersion", "Bran", "TeamEventRepository", "TeamEventPermissions"}

\* The (Rust name, wire name) pairs of the fields whose two names differ.
RenamedIn(fields) ==
    {<< fields[i].name, fields[i].wire >> :
        i \in {k \in 1..Len(fields) : fields[k].name # fields[k].wire}}

RenamedFields ==
    UNION {RenamedIn(ContentFields(n)) : n \in DocumentedEvents}
        \cup UNION {RenamedIn(StructFields(n)) : n \in DeclaredStructs}

\* The input edits a field under a reserved-word key, below records only.
AtReservedKey ==
    /\ inp.ty = "Event" /\ inp.path # << >> /\ Last(inp.path) \in ReservedKeys
    /\ \A i \in 1..Len(inp.path) : \A n \in 1..Len(ArrayStep) : inp.path[i] # ArrayStep[n]

\* C27: the renamed fields are ref_field, type_field and self_field, on the
\* wire ref, type and self, every other field's key being its name; the
\* value under the reserved key is read into the renamed field and written
\* back under the reserved key; a document with the key ref_field,
\* type_field or self_field instead fails as a missing field, the error
\* quoting the reserved key.
C27_ReservedWordKeys ==
    /\ RenamedFields =
            {<< "ref_field", "ref" >>, << "type_field", "type" >>, << "self_field", "self" >>}
    /\ Decoded /\ inp.edit = "set" /\ AtReservedKey /\ result.ok =>
            Reflects(DeclaredType, inp.val,
                     FieldAt(result.v.fields, Parent(inp.path))[Last(inp.path) \o "_field"],
                     TRUE)
    /\ Decoded /\ inp.edit = "set" /\ AtReservedKey /\ inp.val = JStr("x")
            /\ DeclaredType = String => result.ok
    /\ pc = "encoded" /\ inp.edit \in {"set", "none"} /\ AtReservedKey =>
            /\ Last(inp.path) \in Keys(Get(encoded, << inp.variant >> \o Parent(inp.path)))
            /\ Last(inp.path) \o "_field"
                    \notin Keys(Get(encoded, << inp.variant >> \o Parent(inp.path)))
    /\ Decoded /\ inp.edit = "rustname" =>
            /\ Last(inp.path) \o "_field" \in Keys(Get(doc, << inp.variant >> \o Parent(inp.path)))
            /\ ~result.ok /\ result.code = "missing_field"
            /\ result.what = Last(inp.path)

\* C27 witness: a pull request whose _links has the key self_field instead
\* of self has failed, the error naming self.
C27_Witness ==
    /\ Decoded /\ inp.edit = "rustname" /\ inp.variant = "PullRequestEvent"
    /\ inp.path = << "pull_request", "_links", "self" >>
    /\ ~result.ok /\ result.code = "missing_field" /\ result.what = "self"


\* ---- C28 ----
\* The input sets a field declared i64 to a JSON number.
AtI64Field ==
    /\ inp.ty = "Event" /\ inp.edit = "set" /\ inp.path # << >>
    /\ DeclaredType = i64 /\ inp.val.k \in {"num", "float"}

\* An integer literal within i64::MIN..i64::MAX.
InI64Range(j) == j.k = "num" /\ j.n >= I64_MIN /\ j.n <= I64_MAX

\* C28: a field declared i64 decodes exactly the integers of
\* i64::MIN..i64::MAX, holds the integer given and is encoded as that
\* integer; an integer outside the range, and a number that is not an
\* integer, fail the decode: nothing is wrapped or truncated.
C28_I64Exactly ==
    /\ Decoded /\ AtI64Field =>
            /\ result.ok <=> InI64Range(inp.val)
            /\ result.ok =>
                    /\ result.v.variant = inp.variant
                    /\ RecordReflects(ContentFields(inp.variant), Payload_, result.v.fields, TRUE)
            /\ ~result.ok => result.code \in {"invalid_type", "invalid_value"}
    /\ pc = "encoded" /\ AtI64Field =>
            Get(encoded, << inp.variant >> \o inp.path) = inp.val

\* C28 witness: i64::MIN as an owner's id has decoded and been encoded
\* unchanged.
C28_Witness ==
    /\ pc = "encoded" /\ AtI64Field
    /\ inp.variant = "CheckRunEvent" /\ inp.path = << "check_run", "app", "owner", "id" >>
    /\ inp.val = JNum(I64_MIN)
    /\ result.v.fields.check_run.app.owner.id = I64_MIN
    /\ Get(encoded, << inp.variant >> \o inp.path) = JNum(I64_MIN)


=============================================================================
